---- MODULE Spec2Model ----
(***************************************************************************)
(* A model of the redirect resolution engine of erfianugrah/redirector:    *)
(* RedirectService (pattern compilation, matching, destination processing, *)
(* the rule-table mutations), the validators and the LRU cache.            *)
(*                                                                         *)
(* Text is modelled character by character: a string is a sequence of      *)
(* one-character strings, so that the regular expressions the service      *)
(* builds by textual replacement are built and run the same way here.      *)
(***************************************************************************)
EXTENDS Integers, Sequences, FiniteSets, TLC

(***************************************************************************)
(* Text helpers (JavaScript String methods used by the service).           *)
(***************************************************************************)
LowerChars == <<"a","b","c","d","e","f","g","h","i","j","k","l","m",
                "n","o","p","q","r","s","t","u","v","w","x","y","z">>
UpperChars == <<"A","B","C","D","E","F","G","H","I","J","K","L","M",
                "N","O","P","Q","R","S","T","U","V","W","X","Y","Z">>
DigitChars == {"0","1","2","3","4","5","6","7","8","9"}

Range(f) == {f[i] : i \in DOMAIN f}

IsLetter(c) == c \in Range(LowerChars) \cup Range(UpperChars)

\* [a-zA-Z0-9_], the class of a parameter name
IsNameChar(c) == IsLetter(c) \/ c \in DigitChars \/ c = "_"

\* String.prototype.toLowerCase on one character
LowerChar(c) ==
  IF c \in Range(UpperChars)
    THEN LowerChars[CHOOSE i \in DOMAIN UpperChars : UpperChars[i] = c]
    ELSE c

toLowerCase(s) == [i \in DOMAIN s |-> LowerChar(s[i])]

\* s.substring(i - 1): the text from the 1-based position i on
From(s, i) == SubSeq(s, i, Len(s))

\* s.startsWith(p) at the 1-based position i
StartsWithAt(s, p, i) ==
  /\ i + Len(p) - 1 <= Len(s)
  /\ SubSeq(s, i, i + Len(p) - 1) = p

startsWith(s, p) == StartsWithAt(s, p, 1)

endsWith(s, p) == Len(p) <= Len(s) /\ From(s, Len(s) - Len(p) + 1) = p

includes(s, p) == \E i \in 1..(Len(s) + 1) : StartsWithAt(s, p, i)

\* 1-based position of the first occurrence of p in s from i on, 0 if none
IndexOfFrom(s, p, i) ==
  LET hits == {j \in i..(Len(s) + 1) : StartsWithAt(s, p, j)}
  IN IF hits = {} THEN 0 ELSE CHOOSE j \in hits : \A k \in hits : j <= k

\* length of the maximal run of name characters of s that starts at i
RECURSIVE NameRun(_, _)
NameRun(s, i) ==
  IF i <= Len(s) /\ IsNameChar(s[i]) THEN 1 + NameRun(s, i + 1) ELSE 0

(***************************************************************************)
(* validateRedirectPattern (utils/validation).                             *)
(***************************************************************************)
MAX_PATTERN_LENGTH == 200

\* the characters of ALLOWED_PATTERN_REGEX: [a-zA-Z0-9:/*_.\-?&=#+%@!~]
IsAllowedPatternChar(c) ==
  \/ IsLetter(c)
  \/ c \in DigitChars
  \/ c \in {":", "/", "*", "_", ".", "-", "?", "&", "=", "#", "+", "%", "@", "!", "~"}

\* NESTED_QUANTIFIER_REGEX: \([^)]*[*+][^)]*\)[*+]
NestedQuantifier(p) ==
  \E i \in 1..Len(p) : \E j \in (i + 1)..Len(p) :
    /\ p[i] = "("
    /\ p[j] = ")"
    /\ \A k \in (i + 1)..(j - 1) : p[k] # ")"
    /\ \E k \in (i + 1)..(j - 1) : p[k] \in {"*", "+"}
    /\ j + 1 <= Len(p)
    /\ p[j + 1] \in {"*", "+"}

\* a faulty validateRedirectPattern, without the test for "**"
validateRedirectPatternNoRun(p) ==
  IF Len(p) > MAX_PATTERN_LENGTH THEN "too_long"
  ELSE IF ~(Len(p) >= 1 /\ \A i \in DOMAIN p : IsAllowedPatternChar(p[i]))
    THEN "invalid_characters"
  ELSE IF NestedQuantifier(p) THEN "nested_quantifiers"
  ELSE "ok"

\* the result of validateRedirectPattern: "ok" or the reason of the rejection
validateRedirectPattern(p) ==
  IF Len(p) > MAX_PATTERN_LENGTH THEN "too_long"
  ELSE IF ~(Len(p) >= 1 /\ \A i \in DOMAIN p : IsAllowedPatternChar(p[i]))
    THEN "invalid_characters"
  ELSE IF NestedQuantifier(p) THEN "nested_quantifiers"
  ELSE IF includes(p, <<"*", "*">>) THEN "consecutive_wildcards"
  ELSE "ok"

PatternValid(p) == validateRedirectPattern(p) = "ok"

\* a faulty group for ":name", quantified by "*" in place of "+"
SegGroupAny == <<"(", "[", "^", "/", "]", "*", ")">>

(***************************************************************************)
(* compilePattern: the three textual replacements, in the code's order.    *)
(* Each pass returns [text, names, ...]; a later pass runs over the text   *)
(* the earlier pass produced.                                              *)
(***************************************************************************)
StarGroup == <<"(", ".", "*", ")">>
SegGroup  == <<"(", "[", "^", "/", "]", "+", ")">>

\* Step 1: .replace(/:([a-zA-Z0-9_]+)\*/g, ...) from position i on
RECURSIVE NamedSplatPass(_, _)
NamedSplatPass(s, i) ==
  IF i > Len(s) THEN [text |-> <<>>, names |-> <<>>]
  ELSE
    LET n == IF s[i] = ":" THEN NameRun(s, i + 1) ELSE 0
        hit == n >= 1 /\ i + n + 1 <= Len(s) /\ s[i + n + 1] = "*"
    IN IF hit
         THEN LET rest == NamedSplatPass(s, i + n + 2)
              IN [text |-> StarGroup \o rest.text,
                  names |-> <<SubSeq(s, i + 1, i + n)>> \o rest.names]
         ELSE LET rest == NamedSplatPass(s, i + 1)
              IN [text |-> <<s[i]>> \o rest.text, names |-> rest.names]

\* Step 2: .replace(/:([a-zA-Z0-9_]+)/g, ...) from position i on; a name that
\* is already a wildcard parameter is not recorded, its group is still emitted
RECURSIVE ParamPass(_, _, _)
ParamPass(s, i, wildcardParams) ==
  IF i > Len(s) THEN [text |-> <<>>, names |-> <<>>]
  ELSE
    LET n == IF s[i] = ":" THEN NameRun(s, i + 1) ELSE 0
    IN IF n >= 1
         THEN LET rest == ParamPass(s, i + n + 1, wildcardParams)
                  name == SubSeq(s, i + 1, i + n)
              IN [text |-> SegGroup \o rest.text,
                  names |-> IF name \in Range(wildcardParams)
                              THEN rest.names
                              ELSE <<name>> \o rest.names]
         ELSE LET rest == ParamPass(s, i + 1, wildcardParams)
              IN [text |-> <<s[i]>> \o rest.text, names |-> rest.names]

\* the decimal digits of a natural number, as text
RECURSIVE Digits(_)
Digits(n) ==
  LET d == <<"0","1","2","3","4","5","6","7","8","9">>[(n % 10) + 1]
  IN IF n < 10 THEN <<d>> ELSE Digits(n \div 10) \o <<d>>

SplatPrefix == <<"_", "s", "p", "l", "a", "t">>
SplatAlias == <<"s", "p", "l", "a", "t">>

\* Step 3: .replace(/\*/g, ...) from position i on; k bare wildcards were
\* numbered so far; the callback's second argument is the 0-based offset
RECURSIVE StarPass(_, _, _)
StarPass(s, i, k) ==
  IF i > Len(s) THEN [text |-> <<>>, names |-> <<>>, offsets |-> <<>>]
  ELSE IF s[i] = "*"
    THEN LET rest == StarPass(s, i + 1, k + 1)
         IN [text |-> StarGroup \o rest.text,
             names |-> <<SplatPrefix \o Digits(k)>> \o rest.names,
             offsets |-> <<i - 1>> \o rest.offsets]
    ELSE LET rest == StarPass(s, i + 1, k)
         IN [text |-> <<s[i]>> \o rest.text,
             names |-> rest.names, offsets |-> rest.offsets]

\* the CompiledPattern of a pattern text, the regex still as source text
\* between the anchors ^ and $
CompileText(pattern) ==
  LET p1 == NamedSplatPass(pattern, 1)
      p2 == ParamPass(p1.text, 1, p1.names)
      p3 == StarPass(p2.text, 1, 0)
  IN [source |-> p3.text,
      paramNames |-> p1.names \o p2.names \o p3.names,
      wildcardParams |-> p1.names,
      starWildcards |-> p3.offsets]

(***************************************************************************)
(* new RegExp(`^${patternRegex}$`): the regular expression is parsed from  *)
(* the text the replacements produced.  An item is an atom with its        *)
(* quantifier: a literal character, "." (any), "[^/]" (nsl) or a capture   *)
(* group (grp) numbered by its opening parenthesis.                        *)
(***************************************************************************)
Item(k, c, g, body, q, lazy) ==
  [k |-> k, c |-> c, g |-> g, body |-> body, q |-> q, lazy |-> lazy, pos |-> 0]

NotSlashClass == <<"[", "^", "/", "]">>

\* parses items from position i up to an unmatched ")" or the end of the
\* text; g is the number of the next capture group; ok is FALSE where
\* new RegExp throws a SyntaxError (a quantifier with nothing to repeat)
RECURSIVE ParseSeq(_, _, _)
ParseSeq(s, i, g) ==
  IF i > Len(s) \/ s[i] = ")"
    THEN [items |-> <<>>, next |-> i, g |-> g, ok |-> TRUE]
  ELSE
    LET inner == ParseSeq(s, i + 1, g + 1)
        atom ==
          IF s[i] = "("
            THEN [item |-> Item("grp", "", g, inner.items, "1", FALSE),
                  next |-> inner.next + 1, g |-> inner.g,
                  ok |-> inner.ok /\ inner.next <= Len(s)]
          ELSE IF StartsWithAt(s, NotSlashClass, i)
            THEN [item |-> Item("nsl", "", 0, <<>>, "1", FALSE),
                  next |-> i + 4, g |-> g, ok |-> TRUE]
          ELSE IF s[i] = "."
            THEN [item |-> Item("any", "", 0, <<>>, "1", FALSE),
                  next |-> i + 1, g |-> g, ok |-> TRUE]
          ELSE [item |-> Item("chr", s[i], 0, <<>>, "1", FALSE),
                next |-> i + 1, g |-> g,
                ok |-> s[i] \notin {"?", "+", "*", "[", "]"}]
        j == atom.next
        q == IF j <= Len(s) /\ s[j] \in {"?", "+", "*"} THEN s[j] ELSE "1"
        lazy == q # "1" /\ j + 1 <= Len(s) /\ s[j + 1] = "?"
        after == IF q = "1" THEN j ELSE IF lazy THEN j + 2 ELSE j + 1
        rest == ParseSeq(s, after, atom.g)
    IN IF ~atom.ok
         THEN [items |-> <<>>, next |-> i, g |-> g, ok |-> FALSE]
         ELSE [items |-> <<[atom.item EXCEPT !.q = q, !.lazy = lazy]>> \o rest.items,
               next |-> rest.next, g |-> rest.g, ok |-> rest.ok]

\* the parsed regular expression: its items, its number of capture groups, and
\* whether the constructor accepts it
ParseRegex(source) ==
  LET p == ParseSeq(source, 1, 1)
  IN [items |-> p.items, groups |-> p.g - 1,
      ok |-> p.ok /\ p.next = Len(source) + 1]

(***************************************************************************)
(* String.prototype.match with the anchored expression: a backtracking     *)
(* match in the engine's priority order (greedy quantifiers try the longer *)
(* match first), which decides what each group captures.  todo is the list *)
(* of items still to match; "close" ends group g opened at position c;     *)
(* "chk" rejects an iteration that consumed nothing.                       *)
(***************************************************************************)
CloseMark(g, start) ==
  [k |-> "close", c |-> "", g |-> g, body |-> <<>>, q |-> "1", lazy |-> FALSE,
   pos |-> start]
CheckMark(start) ==
  [k |-> "chk", c |-> "", g |-> 0, body |-> <<>>, q |-> "1", lazy |-> FALSE,
   pos |-> start]

NoMatch == [ok |-> FALSE, caps |-> <<>>]

AtomFits(h, ch) ==
  \/ h.k = "any"
  \/ h.k = "nsl" /\ ch # "/"
  \/ h.k = "chr" /\ ch = h.c

RECURSIVE Run(_, _, _, _)
Run(todo, s, pos, caps) ==
  IF todo = <<>>
    THEN IF pos = Len(s) + 1 THEN [ok |-> TRUE, caps |-> caps] ELSE NoMatch
  ELSE
    LET h == Head(todo)
        t == Tail(todo)
        once == [h EXCEPT !.q = "1", !.lazy = FALSE]
    IN IF h.k = "close"
         THEN Run(t, s, pos, [caps EXCEPT ![h.g] = <<h.pos, pos>>])
       ELSE IF h.k = "chk"
         THEN IF pos = h.pos THEN NoMatch ELSE Run(t, s, pos, caps)
       ELSE IF h.q = "1"
         THEN IF h.k = "grp"
                THEN Run(h.body \o <<CloseMark(h.g, pos)>> \o t, s, pos, caps)
              ELSE IF pos <= Len(s) /\ AtomFits(h, s[pos])
                THEN Run(t, s, pos + 1, caps)
              ELSE NoMatch
       ELSE IF h.q = "+"
         THEN Run(<<once, [h EXCEPT !.q = "*"]>> \o t, s, pos, caps)
       ELSE
         LET more == IF h.q = "*" THEN <<once, CheckMark(pos), h>> \o t
                                  ELSE <<once, CheckMark(pos)>> \o t
             taken == Run(more, s, pos, caps)
             skipped == Run(t, s, pos, caps)
         IN IF h.lazy
              THEN IF skipped.ok THEN skipped ELSE taken
              ELSE IF taken.ok THEN taken ELSE skipped

\* path.match(regex): ok and the text of each group ("" for a group that did
\* not take part, as match[i + 1] || '' reads it)
RegexMatch(regex, s) ==
  LET r == Run(regex.items, s, 1, [g \in 1..regex.groups |-> <<0, 0>>])
  IN IF ~r.ok THEN NoMatch
     ELSE [ok |-> TRUE,
           caps |-> [g \in 1..regex.groups |->
                       IF r.caps[g][1] = 0 THEN <<>>
                       ELSE SubSeq(s, r.caps[g][1], r.caps[g][2] - 1)]]

(***************************************************************************)
(* JavaScript objects used as maps (params, the redirect map): a sequence  *)
(* of <<key, value>> in own-property order, which is what Object.entries   *)
(* iterates: canonical array-index keys ascending first, then the other    *)
(* keys in the order of their first insertion.                             *)
(***************************************************************************)
RECURSIVE NumVal(_)
NumVal(s) ==
  IF s = <<>> THEN 0
  ELSE 10 * NumVal(SubSeq(s, 1, Len(s) - 1))
       + (CHOOSE d \in 0..9 : Digits(d) = <<s[Len(s)]>>)

\* a canonical array index: "0", or digits without a leading zero
IsIndexKey(k) ==
  /\ Len(k) >= 1
  /\ Len(k) <= 9
  /\ \A i \in DOMAIN k : k[i] \in DigitChars
  /\ (k[1] = "0" => Len(k) = 1)

Keys(obj) == {obj[i][1] : i \in DOMAIN obj}

HasKey(obj, k) == k \in Keys(obj)

\* obj[k] for a key that is present
Lookup(obj, k) == obj[CHOOSE i \in DOMAIN obj : obj[i][1] = k][2]

\* obj[k] = v
SetKey(obj, k, v) ==
  IF HasKey(obj, k)
    THEN [i \in DOMAIN obj |-> IF obj[i][1] = k THEN <<k, v>> ELSE obj[i]]
  ELSE IF IsIndexKey(k)
    THEN LET before == SelectSeq(obj, LAMBDA e : IsIndexKey(e[1]) /\ NumVal(e[1]) < NumVal(k))
         IN before \o <<<<k, v>>>> \o SubSeq(obj, Len(before) + 1, Len(obj))
  ELSE obj \o <<<<k, v>>>>

\* delete obj[k]
DeleteKey(obj, k) == SelectSeq(obj, LAMBDA e : e[1] # k)

(***************************************************************************)
(* matchPattern: the parameters of a match, bound name by name from the    *)
(* groups in the order of paramNames.                                      *)
(***************************************************************************)
\* a faulty binding loop, whose splat alias keeps the first _splatN it saw
RECURSIVE BindParamsFirstSplat(_, _, _, _)
BindParamsFirstSplat(names, caps, i, params) ==
  IF i > Len(names) THEN params
  ELSE
    LET value == IF i <= Len(caps) THEN caps[i] ELSE <<>>
        bound == SetKey(params, names[i], value)
    IN BindParamsFirstSplat(names, caps, i + 1,
         IF startsWith(names[i], SplatPrefix) /\ ~HasKey(bound, SplatAlias)
           THEN SetKey(bound, SplatAlias, value) ELSE bound)

RECURSIVE BindParams(_, _, _, _)
BindParams(names, caps, i, params) ==
  IF i > Len(names) THEN params
  ELSE
    LET name == names[i]
        value == IF i <= Len(caps) THEN caps[i] ELSE <<>>
        bound == SetKey(params, name, value)
        aliased == IF startsWith(name, SplatPrefix)
                     THEN SetKey(bound, SplatAlias, value)
                     ELSE bound
    IN BindParams(names, caps, i + 1, aliased)

\* the result of path.match(regex) turned into params
MatchedParams(compiled, m) ==
  IF ~m.ok THEN [threw |-> FALSE, ok |-> FALSE, params |-> <<>>]
  ELSE [threw |-> FALSE, ok |-> TRUE,
        params |-> BindParams(compiled.paramNames, m.caps, 1, <<>>)]

\* the match of path with the compiled pattern whose expression is regex
MatchCompiled(path, compiled, regex) ==
  IF ~regex.ok THEN [threw |-> TRUE, ok |-> FALSE, params |-> <<>>]
  ELSE MatchedParams(compiled, RegexMatch(regex, path))

MatchWith(path, compiled) == MatchCompiled(path, compiled, ParseRegex(compiled.source))

\* matchPattern(path, pattern): threw when new RegExp rejects the text; else
\* ok and the params
matchPattern(path, pattern) == MatchWith(path, CompileText(pattern))

(***************************************************************************)
(* The request URL (a parsed WHATWG URL) and the request.                  *)
(* url = [protocol, hostname, pathname, query, hash]: protocol with its    *)
(* colon, query a sequence of <<key, value>>, hash with its "#" or empty.  *)
(***************************************************************************)
RECURSIVE SerializeQuery(_)
SerializeQuery(q) ==
  IF q = <<>> THEN <<>>
  ELSE q[1][1] \o <<"=">> \o q[1][2]
       \o (IF Len(q) > 1 THEN <<"&">> \o SerializeQuery(Tail(q)) ELSE <<>>)

Search(url) == IF url.query = <<>> THEN <<>> ELSE <<"?">> \o SerializeQuery(url.query)

\* url.origin
Origin(url) == url.protocol \o <<"/", "/">> \o url.hostname

\* url.toString()
Href(url) == Origin(url) \o url.pathname \o Search(url) \o url.hash

\* url.searchParams.get(key): the first value, absent as "null"
SearchGet(q, key) ==
  IF \E i \in DOMAIN q : q[i][1] = key
    THEN [found |-> TRUE,
          value |-> q[CHOOSE i \in DOMAIN q :
                        q[i][1] = key /\ \A j \in 1..(i - 1) : q[j][1] # key][2]]
    ELSE [found |-> FALSE, value |-> <<>>]

\* request.headers.get(key): header names compare case-insensitively
HeaderGet(headers, key) ==
  IF \E i \in DOMAIN headers : toLowerCase(headers[i][1]) = toLowerCase(key)
    THEN [found |-> TRUE,
          value |-> headers[CHOOSE i \in DOMAIN headers :
                              toLowerCase(headers[i][1]) = toLowerCase(key)][2]]
    ELSE [found |-> FALSE, value |-> <<>>]

(***************************************************************************)
(* checkConditions.  A rule's conditions: has (the object is present),     *)
(* hostname (empty: absent), queryParams and headers (sequences of         *)
(* <<key, value>>), hasRange, start and end (NoDate: absent).              *)
(***************************************************************************)
NoDate == -1

NoConditions ==
  [has |-> FALSE, hostname |-> <<>>, queryParams |-> <<>>, headers |-> <<>>,
   hasRange |-> FALSE, start |-> NoDate, end |-> NoDate]

\* faulty checks, for which the range has ended at the time dateRange.end
ConditionsHoldEndExcluded(c, url, request, now) ==
  IF ~c.has THEN TRUE
  ELSE IF c.hostname # <<>> /\ url.hostname # c.hostname THEN FALSE
  ELSE IF \E i \in DOMAIN c.queryParams :
            SearchGet(url.query, c.queryParams[i][1]) # [found |-> TRUE,
                                                         value |-> c.queryParams[i][2]]
    THEN FALSE
  ELSE IF \E i \in DOMAIN c.headers :
            HeaderGet(request.headers, c.headers[i][1]) # [found |-> TRUE,
                                                           value |-> c.headers[i][2]]
    THEN FALSE
  ELSE IF c.hasRange /\ c.start # NoDate /\ now < c.start THEN FALSE
  ELSE IF c.hasRange /\ c.end # NoDate /\ now >= c.end THEN FALSE
  ELSE TRUE

\* the checks of checkConditions on the conditions c of an enabled rule
ConditionsHold(c, url, request, now) ==
  IF ~c.has THEN TRUE
  ELSE IF c.hostname # <<>> /\ url.hostname # c.hostname THEN FALSE
  ELSE IF \E i \in DOMAIN c.queryParams :
            LET got == SearchGet(url.query, c.queryParams[i][1])
            IN ~got.found \/ got.value # c.queryParams[i][2]
    THEN FALSE
  ELSE IF \E i \in DOMAIN c.headers :
            LET got == HeaderGet(request.headers, c.headers[i][1])
            IN ~got.found \/ got.value # c.headers[i][2]
    THEN FALSE
  ELSE IF c.hasRange /\ c.start # NoDate /\ now < c.start THEN FALSE
  ELSE IF c.hasRange /\ c.end # NoDate /\ now > c.end THEN FALSE
  ELSE TRUE

\* a faulty checkConditions, without the test of redirect.enabled
checkConditionsOfAny(redirect, url, request, now) ==
  ConditionsHold(redirect.conditions, url, request, now)

checkConditions(redirect, url, request, now) ==
  IF ~redirect.enabled THEN FALSE
  ELSE ConditionsHold(redirect.conditions, url, request, now)

(***************************************************************************)
(* matchRedirect, after the redirect map was obtained.                     *)
(***************************************************************************)
HttpPrefix == <<"h", "t", "t", "p">>

PathKey(url) == toLowerCase(url.pathname)
FullUrlKey(url) == toLowerCase(Href(url))
HostAndPathKey(url) == toLowerCase(url.hostname \o PathKey(url))

\* a host+path pattern: the match against host+path, or else against the path
OrPathMatch(first, pattern, url) ==
  IF first.threw \/ first.ok THEN first ELSE matchPattern(PathKey(url), pattern)

\* the match of one pattern of the iteration, by the class of its source
PatternParams(pattern, url) ==
  IF startsWith(pattern, HttpPrefix) THEN matchPattern(FullUrlKey(url), pattern)
  ELSE IF startsWith(pattern, <<"/">>) THEN matchPattern(PathKey(url), pattern)
  ELSE OrPathMatch(matchPattern(HostAndPathKey(url), pattern), pattern, url)

NotMatched(compiled) ==
  [threw |-> FALSE, matched |-> FALSE, key |-> <<>>, hasParams |-> FALSE,
   params |-> <<>>, compiled |-> compiled]

PatternMatched(pattern, params, compiled) ==
  [threw |-> FALSE, matched |-> TRUE, key |-> pattern, hasParams |-> TRUE,
   params |-> params, compiled |-> compiled \cup {pattern}]

\* one round of the pattern iteration: "continue" for a disabled rule,
\* "throw" when the pattern does not compile, "return" for a match whose
\* conditions hold, "next" otherwise
RoundOf(redirect, m, url, request, now) ==
  IF ~redirect.enabled THEN "continue"
  ELSE IF m.threw THEN "throw"
  ELSE IF m.ok /\ checkConditions(redirect, url, request, now) THEN "return"
  ELSE "next"

\* a faulty pattern iteration, which runs from the last entry to the first, so
\* that of two rules that match the later one is returned
RECURSIVE PatternLoopDown(_, _, _, _, _, _)
PatternLoopDown(redirectMap, j, url, request, now, compiled) ==
  IF j < 1 THEN NotMatched(compiled)
  ELSE IF RoundOf(redirectMap[j][2], PatternParams(redirectMap[j][1], url),
                  url, request, now) = "return"
    THEN PatternMatched(redirectMap[j][1],
                        PatternParams(redirectMap[j][1], url).params, compiled)
  ELSE PatternLoopDown(redirectMap, j - 1, url, request, now,
                       compiled \cup {redirectMap[j][1]})

PatternLoopLastWins(redirectMap, i, url, request, now, compiled) ==
  PatternLoopDown(redirectMap, Len(redirectMap), url, request, now, compiled)

\* the pattern iteration from entry i on; compiled collects the patterns
\* compilePattern was called with (the keys it leaves in the pattern cache)
RECURSIVE PatternLoop(_, _, _, _, _, _)
PatternStep(redirectMap, i, url, request, now, compiled, m, round) ==
  IF round = "continue"
    THEN PatternLoop(redirectMap, i + 1, url, request, now, compiled)
  ELSE IF round = "throw" THEN [NotMatched(compiled) EXCEPT !.threw = TRUE]
  ELSE IF round = "return" THEN PatternMatched(redirectMap[i][1], m.params, compiled)
  ELSE PatternLoop(redirectMap, i + 1, url, request, now,
                   compiled \cup {redirectMap[i][1]})

PatternRound(redirectMap, i, url, request, now, compiled, m) ==
  PatternStep(redirectMap, i, url, request, now, compiled, m,
              RoundOf(redirectMap[i][2], m, url, request, now))

PatternLoop(redirectMap, i, url, request, now, compiled) ==
  IF i > Len(redirectMap) THEN NotMatched(compiled)
  ELSE PatternRound(redirectMap, i, url, request, now, compiled,
                    PatternParams(redirectMap[i][1], url))

ExactHit(redirectMap, key, url, request, now) ==
  HasKey(redirectMap, key) /\ checkConditions(Lookup(redirectMap, key), url, request, now)

Exact(key) ==
  [threw |-> FALSE, matched |-> TRUE, key |-> key, hasParams |-> FALSE,
   params |-> <<>>, compiled |-> {}]

\* the exact-key lookups, from the k-th key on; 0 when none hits
RECURSIVE FirstExactHit(_, _, _, _, _, _)
FirstExactHit(redirectMap, keys, k, url, request, now) ==
  IF k > Len(keys) THEN 0
  ELSE IF ExactHit(redirectMap, keys[k], url, request, now) THEN k
  ELSE FirstExactHit(redirectMap, keys, k + 1, url, request, now)

\* the keys of the exact lookups, in the order they are tried
ExactKeys(url) == <<PathKey(url), FullUrlKey(url), HostAndPathKey(url)>>

MatchFrom(redirectMap, keys, hit, url, request, now) ==
  IF hit # 0 THEN Exact(keys[hit])
  ELSE PatternLoop(redirectMap, 1, url, request, now, {})

MatchKeys(redirectMap, keys, url, request, now) ==
  MatchFrom(redirectMap, keys, FirstExactHit(redirectMap, keys, 1, url, request, now),
            url, request, now)

\* a faulty matchRedirect, which iterates the patterns before it tries the
\* exact keys
ExactAfter(redirectMap, keys, byPattern, url, request, now) ==
  IF byPattern.threw \/ byPattern.matched THEN byPattern
  ELSE MatchFrom(redirectMap, keys,
                 FirstExactHit(redirectMap, keys, 1, url, request, now),
                 url, request, now)

matchRedirectPatternsFirst(redirectMap, url, request, now) ==
  ExactAfter(redirectMap, ExactKeys(url),
             PatternLoop(redirectMap, 1, url, request, now, {}), url, request, now)

\* the RedirectResult: key names the entry of the map that is returned as
\* result.redirect
matchRedirect(redirectMap, url, request, now) ==
  MatchKeys(redirectMap, ExactKeys(url), url, request, now)

(***************************************************************************)
(* new URL(text) and new URL(text, base): the WHATWG parser, for the text  *)
(* the service hands it (no percent-encoding, no dot segments, no          *)
(* credentials, no backslashes, no numeric hosts).                         *)
(***************************************************************************)
\* the first position >= i of s that holds a character of set, Len(s) + 1 if none
FirstOf(s, set, i) ==
  LET hits == {j \in i..Len(s) : s[j] \in set}
  IN IF hits = {} THEN Len(s) + 1 ELSE CHOOSE j \in hits : \A k \in hits : j <= k

\* the length of the scheme of s (without its colon), 0 if s has no scheme
SchemeLen(s) ==
  LET colon == FirstOf(s, {":"}, 1)
  IN IF /\ colon <= Len(s)
        /\ colon >= 2
        /\ IsLetter(s[1])
        /\ \A i \in 2..(colon - 1) :
             IsLetter(s[i]) \/ s[i] \in DigitChars \/ s[i] \in {"+", "-", "."}
       THEN colon - 1
       ELSE 0

SpecialSchemes ==
  {<<"h","t","t","p">>, <<"h","t","t","p","s">>, <<"f","t","p">>,
   <<"w","s">>, <<"w","s","s">>}

DefaultPort(scheme) ==
  IF scheme = <<"h","t","t","p">> THEN <<"8", "0">>
  ELSE IF scheme = <<"h","t","t","p","s">> THEN <<"4", "4", "3">>
  ELSE <<>>

\* the pairs of a query string "k=v&k2=v2" (without its "?")
RECURSIVE ParseQuery(_)
ParseQuery(q) ==
  IF q = <<>> THEN <<>>
  ELSE
    LET amp == FirstOf(q, {"&"}, 1)
        part == SubSeq(q, 1, amp - 1)
        eq == FirstOf(part, {"="}, 1)
        pair == <<SubSeq(part, 1, eq - 1), From(part, eq + 1)>>
        rest == ParseQuery(From(q, amp + 1))
    IN IF part = <<>> THEN rest ELSE <<pair>> \o rest

BadUrl ==
  [ok |-> FALSE, protocol |-> <<>>, hostname |-> <<>>, port |-> <<>>,
   pathname |-> <<>>, query |-> <<>>, hash |-> <<>>]

\* path, query and fragment of the text from position i on; an empty path is
\* emptyPath
PathQueryHash(s, i, emptyPath) ==
  LET q == FirstOf(s, {"?", "#"}, i)
      h == FirstOf(s, {"#"}, i)
      path == SubSeq(s, i, q - 1)
  IN [pathname |-> IF path = <<>> THEN emptyPath ELSE path,
      query |-> IF q < h THEN ParseQuery(SubSeq(s, q + 1, h - 1)) ELSE <<>>,
      hash |-> IF h + 1 <= Len(s) THEN From(s, h) ELSE <<>>]

\* an absolute URL text whose scheme has n characters
ParseAbsolute(s, n) ==
  LET scheme == toLowerCase(SubSeq(s, 1, n))
      afterColon == n + 2
      \* special schemes ignore any number of slashes before the authority
      auth == IF \E i \in afterColon..Len(s) : s[i] # "/"
                THEN CHOOSE i \in afterColon..Len(s) :
                       s[i] # "/" /\ \A j \in afterColon..(i - 1) : s[j] = "/"
                ELSE Len(s) + 1
      authEnd == FirstOf(s, {"/", "?", "#"}, auth)
      colon == FirstOf(s, {":"}, auth)
      hostEnd == IF colon < authEnd THEN colon ELSE authEnd
      host == toLowerCase(SubSeq(s, auth, hostEnd - 1))
      port == SubSeq(s, hostEnd + 1, authEnd - 1)
      tail == PathQueryHash(s, authEnd, <<"/">>)
  IN IF scheme \in SpecialSchemes
       THEN IF host = <<>> \/ \E i \in DOMAIN port : port[i] \notin DigitChars
              THEN BadUrl
              ELSE [ok |-> TRUE, protocol |-> scheme \o <<":">>, hostname |-> host,
                    port |-> IF port = DefaultPort(scheme) THEN <<>> ELSE port,
                    pathname |-> tail.pathname, query |-> tail.query,
                    hash |-> tail.hash]
       ELSE \* file: and the non-special schemes (javascript:, data:, ...)
            [ok |-> TRUE, protocol |-> scheme \o <<":">>, hostname |-> <<>>,
             port |-> <<>>, pathname |-> From(s, afterColon), query |-> <<>>,
             hash |-> <<>>]

SchemeParse(s, n) == IF n = 0 THEN BadUrl ELSE ParseAbsolute(s, n)

\* new URL(text): ok is FALSE where the constructor throws
ParseUrl(s) == SchemeParse(s, SchemeLen(s))

\* a relative reference, split into tail, resolved against an origin (whose
\* path is "/")
ResolveTail(tail, base) ==
  [ok |-> TRUE, protocol |-> base.protocol, hostname |-> base.hostname,
   port |-> base.port,
   pathname |-> IF startsWith(tail.pathname, <<"/">>) THEN tail.pathname
                ELSE <<"/">> \o tail.pathname,
   query |-> tail.query, hash |-> tail.hash]

ResolveRelative(s, base) == ResolveTail(PathQueryHash(s, 1, <<"/">>), base)

\* text s, whose scheme has n characters, against the parsed base
ParseAgainst(s, n, scheme, base) ==
  IF n = 0 THEN ResolveRelative(s, base)
  ELSE IF /\ scheme \o <<":">> = base.protocol
          /\ scheme \in SpecialSchemes
          /\ ~StartsWithAt(s, <<"/", "/">>, n + 2)
    THEN ResolveRelative(From(s, n + 2), base)
  ELSE ParseAbsolute(s, n)

SchemeAgainst(s, n, base) == ParseAgainst(s, n, toLowerCase(SubSeq(s, 1, n)), base)

\* new URL(text, origin)
ParseUrlWithBase(s, origin) == SchemeAgainst(s, SchemeLen(s), ParseUrl(origin))

\* destUrl.toString()
UrlText(u) ==
  u.protocol
  \o (IF u.hostname # <<>> THEN <<"/", "/">> \o u.hostname ELSE <<>>)
  \o (IF u.port # <<>> THEN <<":">> \o u.port ELSE <<>>)
  \o u.pathname \o Search(u) \o u.hash

(***************************************************************************)
(* isHostnameAllowed and validateDestinationUrl (utils/validation).        *)
(***************************************************************************)
WwwDot == <<"w", "w", "w", ".">>

\* a faulty isHostnameAllowed, whose wildcard asks for the suffix without
\* its dot
isHostnameAllowedSuffix(hostname, allowedDomains) ==
  LET h == toLowerCase(hostname)
  IN \E i \in DOMAIN allowedDomains :
       LET p == toLowerCase(allowedDomains[i])
           baseDomain == From(p, 3)
       IN \/ h = p
          \/ /\ startsWith(p, <<"*", ".">>)
             /\ endsWith(h, baseDomain)
          \/ ~startsWith(p, <<"*">>) /\ h = WwwDot \o p

isHostnameAllowed(hostname, allowedDomains) ==
  LET h == toLowerCase(hostname)
  IN \E i \in DOMAIN allowedDomains :
       LET p == toLowerCase(allowedDomains[i])
           baseDomain == From(p, 3)
       IN \/ h = p
          \/ /\ startsWith(p, <<"*", ".">>)
             /\ endsWith(h, <<".">> \o baseDomain) \/ h = baseDomain
          \/ ~startsWith(p, <<"*">>) /\ h = WwwDot \o p

DangerousSchemes ==
  {<<"j","a","v","a","s","c","r","i","p","t",":">>, <<"d","a","t","a",":">>,
   <<"f","i","l","e",":">>, <<"v","b","s","c","r","i","p","t",":">>,
   <<"a","b","o","u","t",":">>, <<"b","l","o","b",":">>, <<"f","t","p",":">>}

\* faulty checks, which ask the allow-list before they look at the scheme
ValidateParsedListFirst(destUrl, scheme, sourceUrl, allowedDomains, allowExternalRedirects) ==
  IF ~destUrl.ok THEN "ok"
  ELSE IF Len(allowedDomains) > 0
    THEN IF isHostnameAllowed(destUrl.hostname, allowedDomains)
           THEN "ok" ELSE "not_in_allowed_list"
  ELSE IF \E d \in DangerousSchemes : startsWith(scheme, d) THEN "blocked_scheme"
  ELSE IF scheme \notin {<<"h","t","t","p",":">>, <<"h","t","t","p","s",":">>}
    THEN "not_http"
  ELSE IF ~allowExternalRedirects /\ destUrl.hostname # sourceUrl.hostname
    THEN "external"
  ELSE "ok"

\* the checks of validateDestinationUrl on the parsed destination, whose
\* protocol in lower case is scheme
ValidateParsed(destUrl, scheme, sourceUrl, allowedDomains, allowExternalRedirects) ==
  IF ~destUrl.ok THEN "ok"
  ELSE IF \E d \in DangerousSchemes : startsWith(scheme, d) THEN "blocked_scheme"
  ELSE IF scheme \notin {<<"h","t","t","p",":">>, <<"h","t","t","p","s",":">>}
    THEN "not_http"
  ELSE IF Len(allowedDomains) > 0
    THEN IF isHostnameAllowed(destUrl.hostname, allowedDomains)
           THEN "ok" ELSE "not_in_allowed_list"
  ELSE IF ~allowExternalRedirects /\ destUrl.hostname # sourceUrl.hostname
    THEN "external"
  ELSE "ok"

ValidateUrl(destUrl, sourceUrl, allowedDomains, allowExternalRedirects) ==
  ValidateParsed(destUrl, toLowerCase(destUrl.protocol), sourceUrl,
                 allowedDomains, allowExternalRedirects)

\* "ok", or the reason of the rejection
validateDestinationUrl(destination, sourceOrigin, allowedDomains, allowExternalRedirects) ==
  ValidateUrl(ParseUrl(destination), ParseUrl(sourceOrigin),
              allowedDomains, allowExternalRedirects)

(***************************************************************************)
(* processRedirect.                                                        *)
(***************************************************************************)
\* GetSubstitution of String.prototype.replace for a replacement text: "$$"
\* stands for "$", "$&" for the matched text and "$" with an apostrophe for
\* the text after the match (the patterns here have no capture groups, so
\* "$1" and the like stay as they are; "$" with a grave accent, the text
\* before the match, is left out: no text of the model holds that character)
RECURSIVE GetSubstitution(_, _, _)
GetSubstitution(replacement, matched, after) ==
  IF replacement = <<>> THEN <<>>
  ELSE IF /\ replacement[1] = "$"
          /\ Len(replacement) >= 2
          /\ replacement[2] \in {"$", "&", "'"}
    THEN (CASE replacement[2] = "$" -> <<"$">>
            [] replacement[2] = "&" -> matched
            [] OTHER -> after)
         \o GetSubstitution(From(replacement, 3), matched, after)
    ELSE <<replacement[1]>> \o GetSubstitution(Tail(replacement), matched, after)

\* s.replace(new RegExp(pat, 'g'), value) for a literal pat, from position i
\* on; with boundary, pat is followed by \b (pat ends with a name character)
RECURSIVE ReplaceAll(_, _, _, _, _)
ReplaceAll(s, i, pat, value, boundary) ==
  IF i > Len(s) THEN <<>>
  ELSE IF /\ StartsWithAt(s, pat, i)
          /\ boundary => (i + Len(pat) > Len(s) \/ ~IsNameChar(s[i + Len(pat)]))
    THEN GetSubstitution(value, pat, From(s, i + Len(pat)))
         \o ReplaceAll(s, i + Len(pat), pat, value, boundary)
    ELSE <<s[i]>> \o ReplaceAll(s, i + 1, pat, value, boundary)

\* s.replace('*', value): the first occurrence only
ReplaceFirstStar(s, value) ==
  LET i == IndexOfFrom(s, <<"*">>, 1)
  IN IF i = 0 THEN s
     ELSE SubSeq(s, 1, i - 1)
          \o GetSubstitution(value, <<"*">>, From(s, i + 1))
          \o From(s, i + 1)

\* the replacement of the bare "*" by the value of a _splatN parameter
SplatStar(key, value, plain) ==
  IF startsWith(key, SplatPrefix) /\ includes(plain, <<"*">>)
    THEN ReplaceFirstStar(plain, value)
    ELSE plain

\* one round of the substitution loop, for the parameter key = value
SubstituteOne(destination, key, value, namedWildcard) ==
  IF includes(destination, namedWildcard)
    THEN ReplaceAll(destination, 1, namedWildcard, value, FALSE)
    ELSE SplatStar(key, value, ReplaceAll(destination, 1, <<":">> \o key, value, TRUE))

\* the substitution loop over Object.entries(params), from entry i on
RECURSIVE Substitute(_, _, _)
Substitute(destination, params, i) ==
  IF i > Len(params) THEN destination
  ELSE Substitute(SubstituteOne(destination, params[i][1], params[i][2],
                                <<":">> \o params[i][1] \o <<"*">>),
                  params, i + 1)

\* destination.replace(/:[a-zA-Z0-9_]+(\*)?/g, '') from position i on
RECURSIVE StripPlaceholders(_, _)
StripPlaceholders(s, i) ==
  IF i > Len(s) THEN <<>>
  ELSE
    LET n == IF s[i] = ":" THEN NameRun(s, i + 1) ELSE 0
        star == IF n >= 1 /\ i + n + 1 <= Len(s) /\ s[i + n + 1] = "*" THEN 1 ELSE 0
    IN IF n >= 1 THEN StripPlaceholders(s, i + n + 1 + star)
       ELSE <<s[i]>> \o StripPlaceholders(s, i + 1)

\* destination.replace(/\/+/g, '/') from position i on
RECURSIVE CollapseSlashes(_, _)
CollapseSlashes(s, i) ==
  IF i > Len(s) THEN <<>>
  ELSE IF s[i] = "/" /\ i > 1 /\ s[i - 1] = "/" THEN CollapseSlashes(s, i + 1)
  ELSE <<s[i]>> \o CollapseSlashes(s, i + 1)

\* params[name] || fallback
ParamOr(params, name, fallback) ==
  IF HasKey(params, name) /\ Lookup(params, name) # <<>>
    THEN Lookup(params, name) ELSE fallback

\* a faulty implicit append, which does not look at the end of the destination
AppendedAnywhere(redirect, params, substituted) ==
  IF /\ HasKey(params, SplatPrefix \o <<"0">>) \/ HasKey(params, SplatAlias)
     /\ ~includes(redirect.destination, <<"*">>)
    THEN substituted
         \o ParamOr(params, SplatAlias, ParamOr(params, SplatPrefix \o <<"0">>, <<>>))
    ELSE substituted

\* the implicit append of the splat to a destination that ends with "/"
Appended(redirect, params, substituted) ==
  IF /\ HasKey(params, SplatPrefix \o <<"0">>) \/ HasKey(params, SplatAlias)
     /\ ~includes(redirect.destination, <<"*">>)
     /\ endsWith(substituted, <<"/">>)
    THEN substituted
         \o ParamOr(params, SplatAlias, ParamOr(params, SplatPrefix \o <<"0">>, <<>>))
    ELSE substituted

\* the destination text handed to new URL: substitution, the implicit
\* append, the placeholder cleanup and the slash collapse
FinalDestination(redirect, params) ==
  CollapseSlashes(
    StripPlaceholders(
      Appended(redirect, params, Substitute(redirect.destination, params, 1)), 1), 1)

\* a faulty merge, in which the request's value of a key replaces the
\* destination's
MergeQueryRequestWins(destQuery, query, i) ==
  query \o SelectSeq(destQuery, LAMBDA pair : \A j \in DOMAIN query : query[j][1] # pair[1])

\* the copy of the request's query keys the destination does not define,
\* from entry i of the request's query on
RECURSIVE MergeQuery(_, _, _)
MergeQuery(destQuery, query, i) ==
  IF i > Len(query) THEN destQuery
  ELSE IF HasKey(destQuery, query[i][1]) THEN MergeQuery(destQuery, query, i + 1)
  ELSE MergeQuery(destQuery \o <<query[i]>>, query, i + 1)

\* a faulty getCacheTTLForStatusCode, for which 301 alone is permanent
getCacheTTLOnly301(statusCode) ==
  IF statusCode = 301 THEN 31536000 ELSE 3600

\* getCacheTTLForStatusCode
getCacheTTLForStatusCode(statusCode) ==
  IF statusCode \in {301, 308} THEN 31536000 ELSE 3600

\* the status codes Response.redirect accepts; any other raises a RangeError
RedirectStatuses == {301, 302, 303, 307, 308}

\* maxAge and cdnMaxAge are the max-age of the Cache-Control and of the
\* CDN-Cache-Control header, both "public, max-age=<ttl>"
Outcome(status, location, ttl, threw) ==
  [status |-> status, location |-> location, maxAge |-> ttl, cdnMaxAge |-> ttl,
   threw |-> threw]

\* new URL(destination), or new URL(destination, url.origin) when that throws
DestUrl(destination, absolute, origin) ==
  IF absolute.ok THEN absolute ELSE ParseUrlWithBase(destination, origin)

ParseDestination(destination, origin) ==
  DestUrl(destination, ParseUrl(destination), origin)

WithQuery(redirect, destUrl, url) ==
  IF redirect.preserveQueryParams
    THEN [destUrl EXCEPT !.query = MergeQuery(destUrl.query, url.query, 1)]
    ELSE destUrl

WithHash(redirect, destUrl, url) ==
  IF redirect.preserveHash /\ url.hash # <<>>
    THEN [destUrl EXCEPT !.hash = url.hash]
    ELSE destUrl

\* the response for the parsed destination
Respond(redirect, destUrl, url) ==
  IF ~destUrl.ok \/ redirect.statusCode \notin RedirectStatuses
    THEN Outcome(0, <<>>, 0, TRUE)
    ELSE Outcome(redirect.statusCode,
                 UrlText(WithHash(redirect, WithQuery(redirect, destUrl, url), url)),
                 getCacheTTLForStatusCode(redirect.statusCode), FALSE)

\* the Response of processRedirect({matched, redirect, params}, url) for the
\* service's allowedDomains and allowExternalRedirects
processRedirect(matched, redirect, params, url, allowedDomains, allowExternalRedirects) ==
  IF ~matched THEN Outcome(404, <<>>, 0, FALSE)
  ELSE IF validateDestinationUrl(redirect.destination, Origin(url),
                                 allowedDomains, allowExternalRedirects) # "ok"
    THEN Outcome(403, <<>>, 0, FALSE)
  ELSE Respond(redirect,
               ParseDestination(FinalDestination(redirect, params), Origin(url)), url)

(***************************************************************************)
(* LRUCache (utils/cache).  A cache is [entries, hits, misses]: entries is *)
(* the Map in its iteration order (least recently used first), each entry  *)
(* [key, value, expiresAt].                                                *)
(***************************************************************************)
NewCache == [entries |-> <<>>, hits |-> 0, misses |-> 0]

EntryIndex(cache, key) ==
  IF \E i \in DOMAIN cache.entries : cache.entries[i].key = key
    THEN CHOOSE i \in DOMAIN cache.entries : cache.entries[i].key = key
    ELSE 0

\* Map.prototype.delete on the entries
WithoutKey(entries, key) == SelectSeq(entries, LAMBDA en : en.key # key)

\* a faulty get, which does not count the miss on an expired entry
CacheGetExpiredUncounted(cache, key, now) ==
  LET i == EntryIndex(cache, key)
      entry == cache.entries[i]
  IN IF i = 0
       THEN [cache |-> [cache EXCEPT !.misses = @ + 1], found |-> FALSE, value |-> 0]
     ELSE IF now > entry.expiresAt
       THEN [cache |-> [cache EXCEPT !.entries = WithoutKey(@, key)],
             found |-> FALSE, value |-> 0]
     ELSE [cache |-> [cache EXCEPT !.entries = WithoutKey(@, key) \o <<entry>>,
                                   !.hits = @ + 1],
           found |-> TRUE, value |-> entry.value]

\* get(key) at time now: [cache, found, value]
CacheGet(cache, key, now) ==
  LET i == EntryIndex(cache, key)
      entry == cache.entries[i]
  IN IF i = 0
       THEN [cache |-> [cache EXCEPT !.misses = @ + 1], found |-> FALSE, value |-> 0]
     ELSE IF now > entry.expiresAt
       THEN [cache |-> [cache EXCEPT !.entries = WithoutKey(@, key), !.misses = @ + 1],
             found |-> FALSE, value |-> 0]
     ELSE [cache |-> [cache EXCEPT !.entries = WithoutKey(@, key) \o <<entry>>,
                                   !.hits = @ + 1],
           found |-> TRUE, value |-> entry.value]

\* a faulty set, which evicts the most recently used entry
CacheSetEvictsNewest(cache, key, value, now, maxSize, ttlMs) ==
  LET removed == WithoutKey(cache.entries, key)
      evicted == IF Len(removed) >= maxSize /\ Len(removed) > 0
                   THEN SubSeq(removed, 1, Len(removed) - 1) ELSE removed
  IN [cache EXCEPT !.entries =
        evicted \o <<[key |-> key, value |-> value, expiresAt |-> now + ttlMs]>>]

\* a faulty set, which never evicts
CacheSetNoEviction(cache, key, value, now, maxSize, ttlMs) ==
  [cache EXCEPT !.entries =
     WithoutKey(cache.entries, key)
       \o <<[key |-> key, value |-> value, expiresAt |-> now + ttlMs]>>]

\* set(key, value) at time now
CacheSet(cache, key, value, now, maxSize, ttlMs) ==
  LET removed == WithoutKey(cache.entries, key)
      evicted == IF Len(removed) >= maxSize /\ Len(removed) > 0
                   THEN Tail(removed) ELSE removed
  IN [cache EXCEPT !.entries =
        evicted \o <<[key |-> key, value |-> value, expiresAt |-> now + ttlMs]>>]

\* delete(key)
CacheDelete(cache, key) == [cache EXCEPT !.entries = WithoutKey(@, key)]

\* clear()
CacheClear(cache) == NewCache

\* getStats().size
CacheSize(cache) == Len(cache.entries)

\* a faulty has, which leaves an expired entry in the cache
CacheHasKeepsExpired(cache, key, now) ==
  LET i == EntryIndex(cache, key)
  IN IF i = 0 THEN [cache |-> cache, found |-> FALSE]
     ELSE [cache |-> cache, found |-> ~(now > cache.entries[i].expiresAt)]

\* has(key) at time now: [cache, found]
CacheHas(cache, key, now) ==
  LET i == EntryIndex(cache, key)
  IN IF i = 0 THEN [cache |-> cache, found |-> FALSE]
     ELSE IF now > cache.entries[i].expiresAt
       THEN [cache |-> [cache EXCEPT !.entries = WithoutKey(@, key)], found |-> FALSE]
     ELSE [cache |-> cache, found |-> TRUE]

\* a faulty prune, which also removes the entries that expire now
CachePruneOnDeadline(cache, now) ==
  LET kept == SelectSeq(cache.entries, LAMBDA en : ~(now >= en.expiresAt))
  IN [cache |-> [cache EXCEPT !.entries = kept],
      pruned |-> Len(cache.entries) - Len(kept)]

\* prune() at time now: [cache, pruned]
CachePrune(cache, now) ==
  LET kept == SelectSeq(cache.entries, LAMBDA en : ~(now > en.expiresAt))
  IN [cache |-> [cache EXCEPT !.entries = kept],
      pruned |-> Len(cache.entries) - Len(kept)]

\* getStats(): size, hits and misses
getStats(cache) ==
  [size |-> Len(cache.entries), hits |-> cache.hits, misses |-> cache.misses]

(***************************************************************************)
(* The rule table in the durable store: JSON.stringify on the way in,      *)
(* JSON.parse and RedirectMapSchema.safeParse on the way out.              *)
(***************************************************************************)
\* z.string().trim()
RECURSIVE Trim(_)
Trim(s) ==
  IF s # <<>> /\ s[1] = " " THEN Trim(Tail(s))
  ELSE IF s # <<>> /\ s[Len(s)] = " " THEN Trim(SubSeq(s, 1, Len(s) - 1))
  ELSE s

\* RedirectSchema accepts the rule
SchemaValid(r) ==
  /\ Len(Trim(r.source)) >= 1
  /\ Len(Trim(r.destination)) >= 1
  /\ r.statusCode \in 300..399

\* the value RedirectSchema parses the rule to
SchemaParsed(r) ==
  [r EXCEPT !.source = Trim(@), !.destination = Trim(@)]

\* JSON.stringify(redirectMap): the text, kept as the entries it lists
Encode(redirectMap) == [present |-> TRUE, json |-> TRUE, entries |-> redirectMap]

NoData == [present |-> FALSE, json |-> FALSE, entries |-> <<>>]

\* JSON.parse(data) and RedirectMapSchema.safeParse: ok and the parsed map
RECURSIVE ParseEntries(_, _, _)
ParseEntries(entries, i, acc) ==
  IF i > Len(entries) THEN acc
  ELSE ParseEntries(entries, i + 1,
                    SetKey(acc, entries[i][1], SchemaParsed(entries[i][2])))

Decode(data) ==
  IF ~data.json \/ \E i \in DOMAIN data.entries : ~SchemaValid(data.entries[i][2])
    THEN [ok |-> FALSE, map |-> <<>>]
    ELSE [ok |-> TRUE, map |-> ParseEntries(data.entries, 1, <<>>)]

(***************************************************************************)
(* Texts of the model's rules and requests.                                *)
(***************************************************************************)
Https == <<"h", "t", "t", "p", "s", ":">>
HostA == <<"a", ".", "c", "o">>
HostB == <<"b", ".", "c", "o">>
HostE == <<"e", ".", "c", "o">>

Rule(source, destination, statusCode, enabled, conditions) ==
  [source |-> source, destination |-> destination, statusCode |-> statusCode,
   enabled |-> enabled, preserveQueryParams |-> TRUE, preserveHash |-> TRUE,
   conditions |-> conditions]

Url(hostname, pathname, query) ==
  [protocol |-> Https, hostname |-> hostname, port |-> <<>>,
   pathname |-> pathname, query |-> query, hash |-> <<>>]

(***************************************************************************)
(* State.                                                                  *)
(*                                                                         *)
(* The services and the store: kv is the value under the key 'redirects';  *)
(* each engine (one RedirectService) has its cache and patternCache; heap  *)
(* holds the redirect-map objects, which the cache and the calls in flight *)
(* share by reference; tasks are the calls in flight, each at the await it *)
(* is suspended at; now is Date.now().                                     *)
(*                                                                         *)
(* The resolution of one request, as a function of its inputs: rin is the  *)
(* redirect map, the URL, the request and the service's configuration,     *)
(* rresult the RedirectResult, rresponse the Response.                     *)
(***************************************************************************)
VARIABLES kv, cache, patternCache, heap, tasks, now, lastChange, started,
          rin, rphase, rresult, rresponse

engineVars == <<kv, cache, patternCache, heap, tasks, now, lastChange, started>>
resolveVars == <<rin, rphase, rresult, rresponse>>
vars == <<kv, cache, patternCache, heap, tasks, now, lastChange, started,
          rin, rphase, rresult, rresponse>>

(***************************************************************************)
(* Bounds and configuration of the engines.                                *)
(***************************************************************************)
NumEngines == 2
NumTasks == 2
MaxOps == 3
MaxTime == 2
CacheTtl == 1
CacheMaxSize == 1000

Engines == 1..NumEngines
Tasks == 1..NumTasks
ObjIds == 1..(NumEngines + NumTasks)

REDIRECT_MAP_CACHE_KEY == "redirect_map"

\* the services are built without ALLOWED_DOMAINS and ALLOW_EXTERNAL_REDIRECTS
EngineAllowedDomains == <<>>
EngineAllowExternal == FALSE

\* the inputs of the calls
RuleA1 == Rule(<<"/", "a">>, <<"/", "b">>, 301, TRUE, NoConditions)
RuleP == Rule(<<"/", ":", "x">>, <<"/", "n", "/", ":", "x">>, 301, TRUE, NoConditions)
RuleBadSource == Rule(<<"/", "a", "/", "*", "*">>, <<"/", "b">>, 301, TRUE, NoConditions)
RuleJs == Rule(<<"/", "j">>, <<"j","a","v","a","s","c","r","i","p","t",":","x">>,
               301, TRUE, NoConditions)

SaveRules == {RuleA1, RuleP, RuleBadSource, RuleJs}
TimedRules == {RuleA1, RuleP}
BulkBatches == {<<RuleA1, RuleP>>, <<RuleP, RuleBadSource>>}
DeleteSources == {<<"/", "a">>, <<"/", ":", "x">>}
MatchUrls == {Url(HostA, <<"/", "a">>, <<>>)}
NoRequest == [headers |-> <<>>]

(***************************************************************************)
(* Tasks: one call of a service method, suspended at an await.             *)
(***************************************************************************)
NoResult == [kind |-> "none", key |-> <<>>, invalid |-> <<>>, cleared |-> 0]

IdleTask ==
  [op |-> "idle", pc |-> "idle", engine |-> 0, rule |-> RuleA1, batch |-> <<>>,
   source |-> <<>>, url |-> Url(<<>>, <<>>, <<>>), map |-> 0, data |-> NoData,
   payload |-> NoData, result |-> NoResult, start |-> 0, wrote |-> FALSE,
   current |-> FALSE, conc |-> {}]

FreeObj == [used |-> FALSE, map |-> <<>>]

\* the objects no cache entry and no call refers to are collected
Collect(h, c, ts) ==
  LET refs == {id \in ObjIds :
                 \/ \E e \in Engines : \E i \in DOMAIN c[e].entries :
                      c[e].entries[i].value = id
                 \/ \E t \in Tasks : ts[t].map = id}
  IN [id \in ObjIds |-> IF id \in refs THEN h[id] ELSE FreeObj]

\* a fresh object identity
NewObj(h) == CHOOSE id \in ObjIds : ~h[id].used /\ \A j \in ObjIds : ~h[j].used => id <= j


(***************************************************************************)
(* The steps of the service methods that the actions are made of.          *)
(***************************************************************************)
\* a faulty saveRedirect, which accepts every source
SaveValidationSkipped(redirect) == "ok"

\* a faulty saveBulkRedirects, which validates the first rule of the batch only
InvalidFirstOnly(batch) ==
  IF batch # <<>> /\ validateRedirectPattern(batch[1].source) # "ok"
    THEN <<batch[1].source>> ELSE <<>>

\* saveRedirect: the validation of the source, before anything is read
SaveValidation(redirect) == validateRedirectPattern(redirect.source)

\* saveBulkRedirects: the sources of the batch that validateRedirectPattern
\* rejects, in the order of the batch
InvalidRedirects(batch) ==
  LET bad == SelectSeq(batch, LAMBDA r : validateRedirectPattern(r.source) # "ok")
  IN [i \in DOMAIN bad |-> bad[i].source]

\* a faulty saveRedirect, which leaves the table as it read it
SavedMapUnchanged(redirectMap, redirect) == redirectMap

\* saveRedirect: redirectMap[redirect.source] = redirect
SavedMap(redirectMap, redirect) == SetKey(redirectMap, redirect.source, redirect)

\* saveBulkRedirects: the loop of assignments, from rule i of the batch on
RECURSIVE BulkSavedMap(_, _, _)
BulkSavedMap(redirectMap, batch, i) ==
  IF i > Len(batch) THEN redirectMap
  ELSE BulkSavedMap(SavedMap(redirectMap, batch[i]), batch, i + 1)

\* deleteRedirect: delete redirectMap[source]
DeletedMap(redirectMap, source) == DeleteKey(redirectMap, source)

\* a faulty clearPatternCache, which leaves the patterns in the cache
clearPatternCacheKept(patterns) == patterns

\* clearPatternCache: the pattern cache after this.patternCache.clear()
clearPatternCache(patterns) == {}

\* getCacheStats(): the sizes of the cache c and of the pattern cache
getCacheStats(c, patterns) ==
  [redirectCache |-> [size |-> CacheSize(c)], patternCacheSize |-> Cardinality(patterns)]

\* the redirect-map entry of a cache after this.cache.delete(REDIRECT_MAP_CACHE_KEY)
InvalidatedCache(c) == CacheDelete(c, REDIRECT_MAP_CACHE_KEY)

\* [used, map] of the object a call works on
MapOf(h, id) == IF id = 0 THEN <<>> ELSE h[id].map

\* the store holds the table map, as decoded
Holds(d, map) == d.ok /\ d.map = map

\* the table a getRedirectMap returned is the table the store holds
IsCurrent(h, id) ==
  IF id = 0 THEN ~kv.present
  ELSE kv.present /\ Holds(Decode(kv), h[id].map)

\* the tasks, the caches and the heap after a step; the objects nothing
\* refers to any more are collected
Settle(newTasks, newCache, newHeap) ==
  /\ tasks' = newTasks
  /\ cache' = newCache
  /\ heap' = Collect(newHeap, newCache, newTasks)

(***************************************************************************)
(* Actions of the engines.                                                 *)
(***************************************************************************)
\* Calls and services have no names: a new call takes the first idle task,
\* and a service that was never called is the first of those never called
EngineUsed(e) ==
  \/ cache[e].hits + cache[e].misses > 0
  \/ \E u \in Tasks : tasks[u].engine = e

FirstFree(t, e) ==
  /\ \A u \in Tasks : u < t => tasks[u].pc # "idle"
  /\ \A f \in Engines : f < e => EngineUsed(f)

\* the call as it enters its method
NewCall(t, e, op, rule, batch, source, url) ==
  [IdleTask EXCEPT !.op = op, !.engine = e, !.rule = rule,
                   !.batch = batch, !.source = source, !.url = url,
                   !.start = now,
                   !.conc = {u \in Tasks \ {t} : tasks[u].pc \notin {"idle", "done"}}]

\* the call rejected before its first await
Rejected(t, call) ==
  Settle([tasks EXCEPT ![t] =
            [call EXCEPT !.pc = "done",
                         !.result = [NoResult EXCEPT !.kind = "error",
                                                     !.invalid = <<call.rule.source>>]]],
         cache, heap)

\* getRedirectMap up to its await: g is the result of this.cache.get
Entered(t, e, call, g) ==
  Settle([tasks EXCEPT ![t] = IF g.found
                                THEN [call EXCEPT !.pc = "resume", !.map = g.value]
                                ELSE [call EXCEPT !.pc = "kvget"]],
         [cache EXCEPT ![e] = g.cache], heap)

\* a call starts: its synchronous part up to the first await.  Every method
\* reaches getRedirectMap, whose first statement reads the cache
Start(t, e, op, rule, batch, source, url) ==
  /\ tasks[t].pc = "idle"
  /\ started < MaxOps
  /\ FirstFree(t, e)
  /\ started' = started + 1
  /\ IF op = "save" /\ SaveValidation(rule) # "ok"
       THEN Rejected(t, NewCall(t, e, op, rule, batch, source, url))
       ELSE Entered(t, e, NewCall(t, e, op, rule, batch, source, url),
                    CacheGet(cache[e], REDIRECT_MAP_CACHE_KEY, now))
  /\ UNCHANGED <<resolveVars, kv, patternCache, now, lastChange>>

StartSave(t, e) ==
  \E r \in SaveRules : Start(t, e, "save", r, <<>>, <<>>, IdleTask.url)
StartBulk(t, e) ==
  \E b \in BulkBatches : Start(t, e, "bulk", IdleTask.rule, b, <<>>, IdleTask.url)
StartDelete(t, e) ==
  \E src \in DeleteSources : Start(t, e, "delete", IdleTask.rule, <<>>, src, IdleTask.url)
StartMatch(t, e) ==
  \E u \in MatchUrls : Start(t, e, "match", IdleTask.rule, <<>>, <<>>, u)
StartGet(t, e) ==
  Start(t, e, "get", IdleTask.rule, <<>>, <<>>, IdleTask.url)
\* the calls of the specification with a clock
StartTimedSave(t, e) ==
  \E r \in TimedRules : Start(t, e, "save", r, <<>>, <<>>, IdleTask.url)

\* await this.kv.get('redirects'): the store answers with what it holds
KvGet(t) ==
  /\ tasks[t].pc = "kvget"
  /\ tasks' = [tasks EXCEPT ![t].pc = "decode", ![t].data = kv]
  /\ UNCHANGED <<resolveVars, kv, cache, patternCache, heap, now, lastChange, started>>

\* getRedirectMap returns the decoded table as the new object id, cached
Fetched(t, e, id, map) ==
  Settle([tasks EXCEPT ![t].pc = "resume", ![t].data = NoData, ![t].map = id],
         [cache EXCEPT ![e] = CacheSet(cache[e], REDIRECT_MAP_CACHE_KEY, id, now,
                                       CacheMaxSize, CacheTtl)],
         [heap EXCEPT ![id] = [used |-> TRUE, map |-> map]])

\* getRedirectMap returns null
FetchedNull(t) ==
  Settle([tasks EXCEPT ![t].pc = "resume", ![t].data = NoData, ![t].map = 0],
         cache, heap)

\* a faulty getRedirectMap, which caches and returns whatever the store holds
DecodedUnchecked(t, present, d) ==
  IF present THEN Fetched(t, tasks[t].engine, NewObj(heap), d.map)
  ELSE FetchedNull(t)

Decoded(t, present, d) ==
  IF present /\ d.ok THEN Fetched(t, tasks[t].engine, NewObj(heap), d.map)
  ELSE FetchedNull(t)

\* getRedirectMap after the await: parse, validate, cache.set
DecodeData(t) ==
  /\ tasks[t].pc = "decode"
  /\ Decoded(t, tasks[t].data.present, Decode(tasks[t].data))
  /\ UNCHANGED <<resolveVars, kv, patternCache, now, lastChange, started>>

\* what the caller of matchRedirect sees
MatchKind(map, m) ==
  IF map = 0 THEN "nomatch"
  ELSE IF m.threw THEN "threw"
  ELSE IF m.matched THEN "matched" ELSE "nomatch"

\* a faulty compilePattern, which drops the entries of earlier calls: the
\* pattern cache holds the patterns of the latest call only
MatchedUncached(t, e, m) ==
  /\ Settle([tasks EXCEPT ![t].pc = "done",
                          ![t].result = [NoResult EXCEPT !.kind = MatchKind(tasks[t].map, m),
                                                         !.key = m.key],
                          ![t].current = IsCurrent(heap, tasks[t].map),
                          ![t].map = 0],
            cache, heap)
  /\ patternCache' = IF tasks[t].map = 0 THEN patternCache
                     ELSE [patternCache EXCEPT ![e] = m.compiled]

\* matchRedirect returns (or throws) with m
Matched(t, e, m) ==
  /\ Settle([tasks EXCEPT ![t].pc = "done",
                          ![t].result = [NoResult EXCEPT !.kind = MatchKind(tasks[t].map, m),
                                                         !.key = m.key],
                          ![t].current = IsCurrent(heap, tasks[t].map),
                          ![t].map = 0],
            cache, heap)
  /\ patternCache' = IF tasks[t].map = 0 THEN patternCache
                     ELSE [patternCache EXCEPT ![e] = @ \cup m.compiled]

\* matchRedirect after await this.getRedirectMap()
ResumeMatch(t) ==
  /\ tasks[t].pc = "resume"
  /\ tasks[t].op = "match"
  /\ Matched(t, tasks[t].engine,
             matchRedirect(MapOf(heap, tasks[t].map), tasks[t].url, NoRequest, now))
  /\ UNCHANGED <<resolveVars, kv, now, lastChange, started>>

\* a direct getRedirectMap (the listing endpoints): the caller has the map
ResumeGet(t) ==
  /\ tasks[t].pc = "resume"
  /\ tasks[t].op = "get"
  /\ tasks' = [tasks EXCEPT ![t].pc = "done",
                            ![t].result = [NoResult EXCEPT !.kind =
                                             IF tasks[t].map = 0 THEN "null" ELSE "map"],
                            ![t].current = IsCurrent(heap, tasks[t].map)]
  /\ UNCHANGED <<resolveVars, kv, cache, patternCache, heap, now, lastChange, started>>

\* a mutation goes on with the object id holding newMap, up to kv.put
IssuePut(t, id, newMap) ==
  Settle([tasks EXCEPT ![t].pc = "put", ![t].map = id, ![t].payload = Encode(newMap)],
         cache, [heap EXCEPT ![id] = [used |-> TRUE, map |-> newMap]])

\* a mutation returns or throws before any put
Return(t, result) ==
  Settle([tasks EXCEPT ![t].pc = "done", ![t].map = 0, ![t].result = result],
         cache, heap)

\* the object of (await this.getRedirectMap()) || {}
MapOrNew(t) == IF tasks[t].map = 0 THEN NewObj(heap) ELSE tasks[t].map

\* saveRedirect after await this.getRedirectMap()
ResumeSave(t) ==
  /\ tasks[t].pc = "resume"
  /\ tasks[t].op = "save"
  /\ IssuePut(t, MapOrNew(t), SavedMap(MapOf(heap, tasks[t].map), tasks[t].rule))
  /\ UNCHANGED <<resolveVars, kv, patternCache, now, lastChange, started>>

BulkChecked(t, invalid) ==
  IF Len(invalid) > 0
    THEN Return(t, [NoResult EXCEPT !.kind = "error", !.invalid = invalid])
    ELSE IssuePut(t, MapOrNew(t),
                  BulkSavedMap(MapOf(heap, tasks[t].map), tasks[t].batch, 1))

\* saveBulkRedirects after await this.getRedirectMap()
ResumeBulk(t) ==
  /\ tasks[t].pc = "resume"
  /\ tasks[t].op = "bulk"
  /\ BulkChecked(t, InvalidRedirects(tasks[t].batch))
  /\ UNCHANGED <<resolveVars, kv, patternCache, now, lastChange, started>>

\* a faulty deleteRedirect, which writes the table back whether or not it
\* holds the source
DeleteFromUnchecked(t, map) ==
  IF tasks[t].map = 0
    THEN Return(t, [NoResult EXCEPT !.kind = "false"])
    ELSE IssuePut(t, tasks[t].map, DeletedMap(map, tasks[t].source))

DeleteFrom(t, map) ==
  IF tasks[t].map = 0 \/ ~HasKey(map, tasks[t].source)
    THEN Return(t, [NoResult EXCEPT !.kind = "false"])
    ELSE IssuePut(t, tasks[t].map, DeletedMap(map, tasks[t].source))

\* deleteRedirect after await this.getRedirectMap()
ResumeDelete(t) ==
  /\ tasks[t].pc = "resume"
  /\ tasks[t].op = "delete"
  /\ DeleteFrom(t, MapOf(heap, tasks[t].map))
  /\ UNCHANGED <<resolveVars, kv, patternCache, now, lastChange, started>>

\* await this.kv.put('redirects', ...): the store takes the text
Put(t) ==
  /\ tasks[t].pc = "put"
  /\ kv' = tasks[t].payload
  /\ lastChange' = IF tasks[t].payload = kv THEN lastChange ELSE now
  /\ tasks' = [tasks EXCEPT ![t].pc = "afterPut", ![t].payload = NoData,
                            ![t].wrote = TRUE]
  /\ UNCHANGED <<resolveVars, cache, patternCache, heap, now, started>>

\* a mutation after the put: this.cache.delete, this.clearPatternCache, return
AfterPut(t) ==
  /\ tasks[t].pc = "afterPut"
  /\ Settle([tasks EXCEPT ![t].pc = "done", ![t].map = 0,
                          ![t].result =
                            [NoResult EXCEPT
                               !.kind = IF tasks[t].op = "delete" THEN "true" ELSE "ok",
                               !.cleared = Cardinality(patternCache[tasks[t].engine])]],
            [cache EXCEPT ![tasks[t].engine] = InvalidatedCache(@)], heap)
  /\ patternCache' = [patternCache EXCEPT ![tasks[t].engine] = clearPatternCache(@)]
  /\ UNCHANGED <<resolveVars, kv, now, lastChange, started>>

\* the caller takes the result of a call that returned or threw
Finish(t) ==
  /\ tasks[t].pc = "done"
  /\ Settle([tasks EXCEPT ![t] = IdleTask], cache, heap)
  /\ UNCHANGED <<resolveVars, kv, patternCache, now, lastChange, started>>

\* time passes
Tick ==
  /\ now < MaxTime
  /\ started > 0
  /\ now' = now + 1
  /\ UNCHANGED <<resolveVars, kv, cache, patternCache, heap, tasks, lastChange, started>>

ResolveIdle ==
  /\ rin = [map |-> <<>>, url |-> Url(<<>>, <<>>, <<>>), request |-> NoRequest,
            now |-> 0, allowedDomains |-> <<>>, allowExternal |-> FALSE]
  /\ rphase = "off"
  /\ rresult = NotMatched({})
  /\ rresponse = Outcome(0, <<>>, 0, FALSE)

Init ==
  /\ kv = NoData
  /\ cache = [e \in Engines |-> NewCache]
  /\ patternCache = [e \in Engines |-> {}]
  /\ heap = [id \in ObjIds |-> FreeObj]
  /\ tasks = [t \in Tasks |-> IdleTask]
  /\ now = 0
  /\ lastChange = 0
  /\ started = 0
  /\ ResolveIdle

(***************************************************************************)
(* The resolution of one request: matchRedirect on a redirect map the      *)
(* service obtained, then processRedirect on its result.                   *)
(***************************************************************************)
MaxResolveRules == 2

ExactPath == Rule(<<"/","p","/","1">>, <<"/","x">>, 301, TRUE, NoConditions)
ExactPathOff == Rule(<<"/","p","/","1">>, <<"/","d">>, 301, FALSE, NoConditions)
ExactPathOnB ==
  Rule(<<"/","p","/","1">>, <<"/","c">>, 302, TRUE,
       [NoConditions EXCEPT !.has = TRUE, !.hostname = HostB])
ParamRule == Rule(<<"/","p","/",":","i","d">>, <<"/","i","/",":","i","d">>, 301, TRUE,
                  NoConditions)
ParamRuleOff == Rule(<<"/","p","/",":","i","d">>, <<"/","o">>, 301, FALSE, NoConditions)
ParamRuleOnB ==
  Rule(<<"/","p","/",":","i","d">>, <<"/","b","/",":","i","d">>, 302, TRUE,
       [NoConditions EXCEPT !.has = TRUE, !.hostname = HostB])
SplatExternal == Rule(<<"/","p","/","*">>, Https \o <<"/","/">> \o HostE \o <<"/","*">>,
                      302, TRUE, NoConditions)
HostParam == Rule(<<"/","p","/",":","h">>, Https \o <<"/","/",":","h","/","x">>,
                  301, TRUE, NoConditions)
HostPath == Rule(HostA \o <<"/","p","/","1">>, <<"/","y">>, 307, TRUE, NoConditions)
FullUrl == Rule(Https \o <<"/","/">> \o HostA \o <<"/","p","/","1">>, <<"/","z">>,
                308, TRUE, NoConditions)

\* a rule RedirectSchema accepts (300 is in 300..399) whose status code
\* Response.redirect does not accept
MultipleChoices == Rule(<<"/","q">>, <<"/","r">>, 300, TRUE, NoConditions)
\* a source validateRedirectPattern accepts and new RegExp rejects
RepeatedPlus == Rule(<<"/","q","+","+">>, <<"/","r">>, 301, TRUE, NoConditions)

ResolveRules ==
  {ExactPath, ExactPathOff, ExactPathOnB, ParamRule, ParamRuleOff, ParamRuleOnB,
   SplatExternal,
   HostParam, HostPath, FullUrl, MultipleChoices, RepeatedPlus}

\* the redirect maps that saving up to MaxResolveRules rules builds
ResolveMaps ==
  {BulkSavedMap(<<>>, batch, 1) :
     batch \in {b \in UNION {[1..n -> ResolveRules] : n \in 1..MaxResolveRules} :
                  \A i, j \in DOMAIN b : i # j => b[i].source # b[j].source}}

ResolveUrls ==
  {Url(HostA, <<"/","p","/","1">>, <<>>),
   Url(HostB, <<"/","p","/","1">>, <<>>),
   Url(HostA, <<"/","p","/">> \o HostE, <<>>),
   Url(HostA, <<"/","q">>, <<>>)}

InitResolve ==
  /\ kv = NoData
  /\ cache = [e \in Engines |-> NewCache]
  /\ patternCache = [e \in Engines |-> {}]
  /\ heap = [id \in ObjIds |-> FreeObj]
  /\ tasks = [t \in Tasks |-> IdleTask]
  /\ now = 0
  /\ lastChange = 0
  /\ started = 0
  /\ rin \in [map : ResolveMaps, url : ResolveUrls, request : {NoRequest},
              now : {0}, allowedDomains : {<<>>}, allowExternal : BOOLEAN]
  /\ rphase = "input"
  /\ rresult = NotMatched({})
  /\ rresponse = Outcome(0, <<>>, 0, FALSE)

\* await this.matchRedirect(url, request)
ResolveMatch ==
  /\ rphase = "input"
  /\ rphase' = "matched"
  /\ rresult' = matchRedirect(rin.map, rin.url, rin.request, rin.now)
  /\ UNCHANGED <<engineVars, rin, rresponse>>

\* result.redirect: the rule of the entry the result names
ResultRedirect == IF rresult.matched THEN Lookup(rin.map, rresult.key) ELSE ExactPath

\* this.processRedirect(redirectResult, url)
ResolveProcess ==
  /\ rphase = "matched"
  /\ ~rresult.threw
  /\ rphase' = "processed"
  /\ rresponse' = processRedirect(rresult.matched, ResultRedirect, rresult.params,
                                  rin.url, rin.allowedDomains, rin.allowExternal)
  /\ UNCHANGED <<engineVars, rin, rresult>>

ResolveNext ==
  \/ ResolveMatch
  \/ ResolveProcess

SpecResolve == InitResolve /\ [][ResolveNext]_vars

\* the services under calls of every kind, within one lifetime of a cache entry
Next ==
  \/ \E t \in Tasks : \E e \in Engines :
       \/ StartSave(t, e)
       \/ StartBulk(t, e)
       \/ StartDelete(t, e)
       \/ StartMatch(t, e)
       \/ StartGet(t, e)
  \/ \E t \in Tasks :
       \/ KvGet(t)
       \/ DecodeData(t)
       \/ ResumeMatch(t)
       \/ ResumeGet(t)
       \/ ResumeSave(t)
       \/ ResumeBulk(t)
       \/ ResumeDelete(t)
       \/ Put(t)
       \/ AfterPut(t)
       \/ Finish(t)

Spec == Init /\ [][Next]_vars

\* the services under saves and resolutions while time passes
TimedNext ==
  \/ \E t \in Tasks : \E e \in Engines :
       \/ StartTimedSave(t, e)
       \/ StartMatch(t, e)
  \/ \E t \in Tasks :
       \/ KvGet(t)
       \/ DecodeData(t)
       \/ ResumeMatch(t)
       \/ ResumeSave(t)
       \/ Put(t)
       \/ AfterPut(t)
       \/ Finish(t)
  \/ Tick

\* the services start on a store that is empty or holds a table saved earlier
InitTimed ==
  /\ kv \in {NoData, Encode(SavedMap(<<>>, RuleA1))}
  /\ cache = [e \in Engines |-> NewCache]
  /\ patternCache = [e \in Engines |-> {}]
  /\ heap = [id \in ObjIds |-> FreeObj]
  /\ tasks = [t \in Tasks |-> IdleTask]
  /\ now = 0
  /\ lastChange = 0
  /\ started = 0
  /\ ResolveIdle

SpecTimed == InitTimed /\ [][TimedNext]_vars

(***************************************************************************)
(* One caller at a time: each call returns before the next one starts.     *)
(* The calls that returned stay in the lower slots, oldest first, and the  *)
(* running or latest call is in the slot above them.                       *)
(***************************************************************************)
RuleN == Rule(<<"/", "n", "/", ":", "y">>, <<"/", "m", "/", ":", "y">>, 301, TRUE,
              NoConditions)
\* a rule RedirectSchema rejects: its status code is not a 3xx
RuleStatus200 == Rule(<<"/", "a">>, <<"/", "b">>, 200, TRUE, NoConditions)

\* what the store holds: text that JSON.parse rejects, and a table
\* RedirectMapSchema rejects
UnparsableData == [present |-> TRUE, json |-> FALSE, entries |-> <<>>]
SchemaInvalidData == Encode(SavedMap(<<>>, RuleStatus200))

SeqStores ==
  {NoData, Encode(SavedMap(<<>>, RuleA1)),
   Encode(BulkSavedMap(<<>>, <<RuleN, RuleP>>, 1)),
   UnparsableData, SchemaInvalidData}
SeqUrls == {Url(HostA, <<"/", "a">>, <<>>), Url(HostA, <<"/", "n", "/", "1">>, <<>>)}

\* no call is in flight: the calls before slot t returned, the slots after
\* it are free
Sequential(t) ==
  \A u \in Tasks \ {t} :
    IF u < t THEN tasks[u].pc = "done" ELSE tasks[u].pc = "idle"

SeqSave(t, e) == Sequential(t) /\ StartSave(t, e)
SeqBulk(t, e) == Sequential(t) /\ StartBulk(t, e)
SeqDelete(t, e) == Sequential(t) /\ StartDelete(t, e)
SeqMatch(t, e) ==
  /\ Sequential(t)
  /\ \E u \in SeqUrls : Start(t, e, "match", IdleTask.rule, <<>>, <<>>, u)
SeqGet(t, e) == Sequential(t) /\ StartGet(t, e)

\* the caller drops the result of the oldest call; the later ones move down
Retire ==
  /\ \A u \in Tasks : tasks[u].pc \in {"idle", "done"}
  /\ tasks[1].pc = "done"
  /\ Settle([u \in Tasks |-> IF u + 1 \in Tasks THEN tasks[u + 1] ELSE IdleTask],
            cache, heap)
  /\ UNCHANGED <<resolveVars, kv, patternCache, now, lastChange, started>>

SeqNext ==
  \/ \E t \in Tasks : \E e \in Engines :
       \/ SeqSave(t, e)
       \/ SeqBulk(t, e)
       \/ SeqDelete(t, e)
       \/ SeqMatch(t, e)
       \/ SeqGet(t, e)
  \/ \E t \in Tasks :
       \/ KvGet(t)
       \/ DecodeData(t)
       \/ ResumeMatch(t)
       \/ ResumeGet(t)
       \/ ResumeSave(t)
       \/ ResumeBulk(t)
       \/ ResumeDelete(t)
       \/ Put(t)
       \/ AfterPut(t)
  \/ Retire

InitSeq ==
  /\ kv \in SeqStores
  /\ cache = [e \in Engines |-> NewCache]
  /\ patternCache = [e \in Engines |-> {}]
  /\ heap = [id \in ObjIds |-> FreeObj]
  /\ tasks = [t \in Tasks |-> IdleTask]
  /\ now = 0
  /\ lastChange = 0
  /\ started = 0
  /\ ResolveIdle

SpecSeq == InitSeq /\ [][SeqNext]_vars

(***************************************************************************)
(* The services under deletes and resolutions over a store that holds      *)
(* rules: every interleaving of up to MaxOps calls.                        *)
(***************************************************************************)
DeleteStores ==
  {Encode(SavedMap(<<>>, RuleA1)), Encode(BulkSavedMap(<<>>, <<RuleA1, RuleP>>, 1))}
DeleteUrls == {Url(HostA, <<"/", "a">>, <<>>), Url(HostA, <<"/", "z">>, <<>>)}

StartDeleteMatch(t, e) ==
  \E u \in DeleteUrls : Start(t, e, "match", IdleTask.rule, <<>>, <<>>, u)

DeleteNext ==
  \/ \E t \in Tasks : \E e \in Engines :
       \/ StartDelete(t, e)
       \/ StartDeleteMatch(t, e)
  \/ \E t \in Tasks :
       \/ KvGet(t)
       \/ DecodeData(t)
       \/ ResumeMatch(t)
       \/ ResumeDelete(t)
       \/ Put(t)
       \/ AfterPut(t)
       \/ Finish(t)

InitDelete ==
  /\ kv \in DeleteStores
  /\ cache = [e \in Engines |-> NewCache]
  /\ patternCache = [e \in Engines |-> {}]
  /\ heap = [id \in ObjIds |-> FreeObj]
  /\ tasks = [t \in Tasks |-> IdleTask]
  /\ now = 0
  /\ lastChange = 0
  /\ started = 0
  /\ ResolveIdle

SpecDelete == InitDelete /\ [][DeleteNext]_vars

(***************************************************************************)
(* One pattern rule applied to one path: matchPattern, then the            *)
(* destination text processRedirect builds from the params.                *)
(***************************************************************************)
ProductsId == <<"/","p","/",":","i","d">>
BlogPath == <<"/","b","/",":","t","*">>
DocsStar == <<"/","d","/","*">>
TwoStars == <<"/","*","/","*">>
StarThenId == <<"/","*","/",":","i","d">>
TwoParams == <<"/",":","a","/",":","b">>
Literal == <<"/","p","/","1">>

PatternTexts ==
  {ProductsId, BlogPath, DocsStar, TwoStars, StarThenId, TwoParams, Literal}

PatternPaths ==
  {<<"/","p","/","1","2">>, <<"/","p","/">>, <<"/","p","/","1","/","2">>,
   <<"/","x","/","p","/","1">>, <<"/","p","/","1">>,
   <<"/","b","/">>, <<"/","b","/","x","/","y">>,
   <<"/","d","/","a","/","b">>, <<"/","d","/">>, <<"/","a","/">>,
   <<"/","p","/","$","&">>, <<"/",":","b","/","x">>}

PatternDestinations ==
  {<<"/","i","/",":","i","d">>, <<"/","n","/","*">>, <<"/","n","/">>,
   <<"/","n","/",":","t","*">>, <<"/","*","/","*">>, <<"/",":","a","/",":","b">>,
   <<"/","n","/",":","s","p","l","a","t">>, <<"/","n">>}

\* a rule with the given source and destination
PatternRule(pattern, destination) == Rule(pattern, destination, 301, TRUE, NoConditions)

InitPattern ==
  /\ kv = NoData
  /\ cache = [e \in Engines |-> NewCache]
  /\ patternCache = [e \in Engines |-> {}]
  /\ heap = [id \in ObjIds |-> FreeObj]
  /\ tasks = [t \in Tasks |-> IdleTask]
  /\ now = 0
  /\ lastChange = 0
  /\ started = 0
  /\ rin \in [pattern : PatternTexts, path : PatternPaths,
              destination : PatternDestinations]
  /\ rphase = "input"
  /\ rresult = [threw |-> FALSE, ok |-> FALSE, params |-> <<>>]
  /\ rresponse = [substituted |-> <<>>, appended |-> <<>>, destination |-> <<>>]

\* params = this.matchPattern(path, pattern)
PatternMatch ==
  /\ rphase = "input"
  /\ rphase' = "matched"
  /\ rresult' = matchPattern(rin.path, rin.pattern)
  /\ UNCHANGED <<engineVars, rin, rresponse>>

\* the texts of processRedirect: after the substitution loop, after the
\* implicit append, and as handed to new URL
Destinations(redirect, params, substituted) ==
  [substituted |-> substituted,
   appended |-> Appended(redirect, params, substituted),
   destination |-> FinalDestination(redirect, params)]

\* processRedirect up to new URL(destination), for the params of a match
PatternSubstitute ==
  /\ rphase = "matched"
  /\ rresult.ok
  /\ rphase' = "substituted"
  /\ rresponse' = Destinations(PatternRule(rin.pattern, rin.destination), rresult.params,
                               Substitute(rin.destination, rresult.params, 1))
  /\ UNCHANGED <<engineVars, rin, rresult>>

PatternNext ==
  \/ PatternMatch
  \/ PatternSubstitute

SpecPattern == InitPattern /\ [][PatternNext]_vars

(***************************************************************************)
(* One stored rule and one request: matchRedirect on the table that holds  *)
(* the rule alone, then processRedirect.                                   *)
(***************************************************************************)
KeyK == <<"k">>
KeyM == <<"m">>
TargetDestinations ==
  {<<"/","b">>, <<"/","b","?","k","=","d">>, <<"/","b","#","f">>,
   Https \o <<"/","/">> \o HostE \o <<"/","b","?","k","=","d">>}

TargetRules ==
  {[Rule(<<"/","a">>, d, s, TRUE, NoConditions)
      EXCEPT !.preserveQueryParams = q, !.preserveHash = h] :
     d \in TargetDestinations, s \in RedirectStatuses, q \in BOOLEAN, h \in BOOLEAN}

TargetQueries ==
  {<<>>, <<<<KeyK, <<"r">>>>>>, <<<<KeyM, <<"r">>>>>>,
   <<<<KeyK, <<"r">>>>, <<KeyM, <<"s">>>>>>}

TargetUrls ==
  {[Url(HostA, <<"/","a">>, q) EXCEPT !.hash = h] :
     q \in TargetQueries, h \in {<<>>, <<"#","h">>}}

InitTarget ==
  /\ kv = NoData
  /\ cache = [e \in Engines |-> NewCache]
  /\ patternCache = [e \in Engines |-> {}]
  /\ heap = [id \in ObjIds |-> FreeObj]
  /\ tasks = [t \in Tasks |-> IdleTask]
  /\ now = 0
  /\ lastChange = 0
  /\ started = 0
  /\ rin \in [redirect : TargetRules, url : TargetUrls, allowExternal : BOOLEAN]
  /\ rphase = "input"
  /\ rresult = NotMatched({})
  /\ rresponse = Outcome(0, <<>>, 0, FALSE)

\* await this.matchRedirect(url, request) on the table of the one rule
TargetMatch ==
  /\ rphase = "input"
  /\ rphase' = "matched"
  /\ rresult' = matchRedirect(SavedMap(<<>>, rin.redirect), rin.url, NoRequest, 0)
  /\ UNCHANGED <<engineVars, rin, rresponse>>

\* this.processRedirect(redirectResult, url)
TargetProcess ==
  /\ rphase = "matched"
  /\ rphase' = "processed"
  /\ rresponse' = processRedirect(rresult.matched, rin.redirect, rresult.params,
                                  rin.url, EngineAllowedDomains, rin.allowExternal)
  /\ UNCHANGED <<engineVars, rin, rresult>>

TargetNext ==
  \/ TargetMatch
  \/ TargetProcess

SpecTarget == InitTarget /\ [][TargetNext]_vars

(***************************************************************************)
(* One stored rule whose destination has no placeholder and one request:   *)
(* matchRedirect on the table that holds the rule alone, then              *)
(* processRedirect, for destinations with a port, and with "//" or ":" in  *)
(* the query string.                                                       *)
(***************************************************************************)
Port8080 == <<":","8","0","8","0">>

CleanupDestinations ==
  {<<"/","b">>,
   <<"/","b","?","k","=","d">>,
   <<"/","b","?","u","=","/","/","x">>,
   <<"/","b","?","t","=",":","x">>,
   <<"/","b","/",":","x">>,
   Https \o <<"/","/">> \o HostE \o <<"/","p">>,
   Https \o <<"/","/">> \o HostE \o Port8080 \o <<"/","p">>,
   Https \o <<"/","/">> \o HostA \o Port8080 \o <<"/","p">>}

CleanupRules ==
  {[Rule(<<"/","a">>, d, 301, TRUE, NoConditions)
      EXCEPT !.preserveQueryParams = q, !.preserveHash = h] :
     d \in CleanupDestinations, q \in BOOLEAN, h \in BOOLEAN}

CleanupUrls ==
  {[Url(HostA, <<"/","a">>, q) EXCEPT !.hash = h] :
     q \in {<<>>, <<<<KeyK, <<"r">>>>>>}, h \in {<<>>, <<"#","h">>}}

InitCleanup ==
  /\ kv = NoData
  /\ cache = [e \in Engines |-> NewCache]
  /\ patternCache = [e \in Engines |-> {}]
  /\ heap = [id \in ObjIds |-> FreeObj]
  /\ tasks = [t \in Tasks |-> IdleTask]
  /\ now = 0
  /\ lastChange = 0
  /\ started = 0
  /\ rin \in [redirect : CleanupRules, url : CleanupUrls, allowExternal : BOOLEAN]
  /\ rphase = "input"
  /\ rresult = NotMatched({})
  /\ rresponse = Outcome(0, <<>>, 0, FALSE)

\* await this.matchRedirect(url, request) on the table of the one rule
CleanupMatch ==
  /\ rphase = "input"
  /\ rphase' = "matched"
  /\ rresult' = matchRedirect(SavedMap(<<>>, rin.redirect), rin.url, NoRequest, 0)
  /\ UNCHANGED <<engineVars, rin, rresponse>>

\* this.processRedirect(redirectResult, url)
CleanupProcess ==
  /\ rphase = "matched"
  /\ rphase' = "processed"
  /\ rresponse' = processRedirect(rresult.matched, rin.redirect, rresult.params,
                                  rin.url, EngineAllowedDomains, rin.allowExternal)
  /\ UNCHANGED <<engineVars, rin, rresult>>

CleanupNext ==
  \/ CleanupMatch
  \/ CleanupProcess

SpecCleanup == InitCleanup /\ [][CleanupNext]_vars

(***************************************************************************)
(* One stored rule with conditions and one request at one time:            *)
(* matchRedirect on the table that holds the rule alone.                   *)
(***************************************************************************)
HeaderX == <<"x">>
ConditionSets ==
  {NoConditions} \cup
  {[has |-> TRUE, hostname |-> h, queryParams |-> q, headers |-> hd,
    hasRange |-> r[1], start |-> r[2], end |-> r[3]] :
     h \in {<<>>, HostA},
     q \in {<<>>, <<<<KeyK, <<"r">>>>>>},
     hd \in {<<>>, <<<<HeaderX, <<"1">>>>>>},
     r \in {<<FALSE, NoDate, NoDate>>, <<TRUE, 1, 1>>, <<TRUE, 1, NoDate>>,
            <<TRUE, NoDate, 1>>}}

ConditionRules ==
  {Rule(<<"/","a">>, <<"/","b">>, 301, e, c) : e \in BOOLEAN, c \in ConditionSets}

ConditionUrls ==
  {Url(h, <<"/","a">>, q) :
     h \in {HostA, HostB},
     q \in {<<>>, <<<<KeyK, <<"r">>>>>>, <<<<KeyK, <<"s">>>>>>}}

\* requests: without headers, with the header under another letter case,
\* and with another value
ConditionRequests ==
  {NoRequest, [headers |-> <<<<<<"X">>, <<"1">>>>>>],
   [headers |-> <<<<HeaderX, <<"2">>>>>>]}

InitCondition ==
  /\ kv = NoData
  /\ cache = [e \in Engines |-> NewCache]
  /\ patternCache = [e \in Engines |-> {}]
  /\ heap = [id \in ObjIds |-> FreeObj]
  /\ tasks = [t \in Tasks |-> IdleTask]
  /\ now = 0
  /\ lastChange = 0
  /\ started = 0
  /\ rin \in [redirect : ConditionRules, url : ConditionUrls,
              request : ConditionRequests, now : 0..MaxTime]
  /\ rphase = "input"
  /\ rresult = NotMatched({})
  /\ rresponse = Outcome(0, <<>>, 0, FALSE)

\* await this.matchRedirect(url, request) at the time rin.now
ConditionMatch ==
  /\ rphase = "input"
  /\ rphase' = "matched"
  /\ rresult' = matchRedirect(SavedMap(<<>>, rin.redirect), rin.url, rin.request, rin.now)
  /\ UNCHANGED <<engineVars, rin, rresponse>>

SpecCondition == InitCondition /\ [][ConditionMatch]_vars

(***************************************************************************)
(* One stored rule without conditions and one request: matchRedirect on    *)
(* the table that holds the rule alone, for sources of every class and     *)
(* letter case.                                                            *)
(***************************************************************************)
HostHttp == <<"h","t","t","p",".","c","o">>
SchemeHttps == <<"h","t","t","p","s",":","/","/">>
SegX == <<"/",":","x">>

SourceTexts ==
  {<<"/","a">>, <<"/","A">>,
   HostA \o <<"/","a">>, HostA \o <<"/","A">>,
   SchemeHttps \o HostA \o <<"/","a">>, SchemeHttps \o HostA \o <<"/","A">>,
   <<"/","a">> \o SegX, <<"/","A">> \o SegX,
   HostA \o SegX, HostHttp \o SegX, SchemeHttps \o HostA \o SegX,
   <<"a">> \o SegX}

SourceRules == {Rule(s, <<"/","b">>, 301, TRUE, NoConditions) : s \in SourceTexts}

SourceUrls ==
  {Url(h, p, <<>>) :
     h \in {HostA, HostHttp},
     p \in {<<"/","a">>, <<"/","A">>, <<"/","1">>, <<"/","a","/","1">>, <<"/","A","/","1">>}}

InitSource ==
  /\ kv = NoData
  /\ cache = [e \in Engines |-> NewCache]
  /\ patternCache = [e \in Engines |-> {}]
  /\ heap = [id \in ObjIds |-> FreeObj]
  /\ tasks = [t \in Tasks |-> IdleTask]
  /\ now = 0
  /\ lastChange = 0
  /\ started = 0
  /\ rin \in [redirect : SourceRules, url : SourceUrls]
  /\ rphase = "input"
  /\ rresult = NotMatched({})
  /\ rresponse = Outcome(0, <<>>, 0, FALSE)

\* await this.matchRedirect(url, request)
SourceMatch ==
  /\ rphase = "input"
  /\ rphase' = "matched"
  /\ rresult' = matchRedirect(SavedMap(<<>>, rin.redirect), rin.url, NoRequest, 0)
  /\ UNCHANGED <<engineVars, rin, rresponse>>

SpecSource == InitSource /\ [][SourceMatch]_vars

(***************************************************************************)
(* One stored rule whose source has no token and one request: matchRedirect *)
(* on the table that holds the rule alone, for sources with the characters *)
(* ".", "?" and "+".                                                       *)
(***************************************************************************)
HostAx == <<"a","x","c","o">>

LiteralSources ==
  {<<"/","a","b">>, <<"/","a",".","b">>, <<"/","a","b","?">>, <<"/","a","+">>,
   HostA \o <<"/","a","b">>}

LiteralRules == {Rule(s, <<"/","n">>, 301, TRUE, NoConditions) : s \in LiteralSources}

LiteralUrls ==
  {Url(h, p, <<>>) :
     h \in {HostA, HostAx},
     p \in {<<"/","a","b">>, <<"/","a",".","b">>, <<"/","a","x","b">>, <<"/","a">>,
            <<"/","a","a">>, <<"/","a","+">>, <<"/","b">>}}

InitLiteral ==
  /\ kv = NoData
  /\ cache = [e \in Engines |-> NewCache]
  /\ patternCache = [e \in Engines |-> {}]
  /\ heap = [id \in ObjIds |-> FreeObj]
  /\ tasks = [t \in Tasks |-> IdleTask]
  /\ now = 0
  /\ lastChange = 0
  /\ started = 0
  /\ rin \in [redirect : LiteralRules, url : LiteralUrls]
  /\ rphase = "input"
  /\ rresult = NotMatched({})
  /\ rresponse = Outcome(0, <<>>, 0, FALSE)

\* await this.matchRedirect(url, request)
LiteralMatch ==
  /\ rphase = "input"
  /\ rphase' = "matched"
  /\ rresult' = matchRedirect(SavedMap(<<>>, rin.redirect), rin.url, NoRequest, 0)
  /\ UNCHANGED <<engineVars, rin, rresponse>>

SpecLiteral == InitLiteral /\ [][LiteralMatch]_vars

(***************************************************************************)
(* One LRUCache of LruCapacity entries and CacheTtl lifetime, cache[1],    *)
(* under every sequence of up to LruCalls calls, the clock advancing       *)
(* between them.  rin is the history of the calls: their number, the       *)
(* number of get calls since construction or the last clear, and for each  *)
(* key the call that last touched it (a get hit or a set) and the deadline *)
(* of its last set.  rresult is the last call and what it returned.        *)
(***************************************************************************)
LruCapacity == 2
LruCalls == 4
\* one key more than the cache holds
KeyNames == <<"a", "b", "c", "d", "e">>
LruKeys == {KeyNames[i] : i \in 1..(LruCapacity + 1)}
LruValues == {1, 2}

NoCall == [op |-> "none", key |-> "", found |-> FALSE, value |-> 0, count |-> 0]
Call(op, key, found, value, count) ==
  [op |-> op, key |-> key, found |-> found, value |-> value, count |-> count]

InitLru ==
  /\ kv = NoData
  /\ cache = [e \in Engines |-> NewCache]
  /\ patternCache = [e \in Engines |-> {}]
  /\ heap = [id \in ObjIds |-> FreeObj]
  /\ tasks = [t \in Tasks |-> IdleTask]
  /\ now = 0
  /\ lastChange = 0
  /\ started = 0
  /\ rin = [calls |-> 0, gets |-> 0, touched |-> [k \in LruKeys |-> 0],
            deadline |-> [k \in LruKeys |-> 0]]
  /\ rphase = "cache"
  /\ rresult = NoCall
  /\ rresponse = Outcome(0, <<>>, 0, FALSE)

LruFrame == UNCHANGED <<kv, patternCache, heap, tasks, now, lastChange, started,
                        rphase, rresponse>>

\* cache.get(k)
LruGet ==
  \E k \in LruKeys :
    /\ rin.calls < LruCalls
    /\ cache' = [cache EXCEPT ![1] = CacheGet(cache[1], k, now).cache]
    /\ rresult' = Call("get", k, CacheGet(cache[1], k, now).found,
                       CacheGet(cache[1], k, now).value, 0)
    /\ rin' = [rin EXCEPT !.calls = @ + 1, !.gets = @ + 1,
                          !.touched[k] = IF CacheGet(cache[1], k, now).found
                                           THEN rin.calls + 1 ELSE @]
    /\ LruFrame

\* cache.set(k, v)
LruSet ==
  \E k \in LruKeys, v \in LruValues :
    /\ rin.calls < LruCalls
    /\ cache' = [cache EXCEPT ![1] = CacheSet(cache[1], k, v, now, LruCapacity, CacheTtl)]
    /\ rresult' = Call("set", k, FALSE, v, 0)
    /\ rin' = [rin EXCEPT !.calls = @ + 1, !.touched[k] = rin.calls + 1,
                          !.deadline[k] = now + CacheTtl]
    /\ LruFrame

\* cache.has(k)
LruHas ==
  \E k \in LruKeys :
    /\ rin.calls < LruCalls
    /\ cache' = [cache EXCEPT ![1] = CacheHas(cache[1], k, now).cache]
    /\ rresult' = Call("has", k, CacheHas(cache[1], k, now).found, 0, 0)
    /\ rin' = [rin EXCEPT !.calls = @ + 1]
    /\ LruFrame

\* cache.delete(k)
LruDelete ==
  \E k \in LruKeys :
    /\ rin.calls < LruCalls
    /\ cache' = [cache EXCEPT ![1] = CacheDelete(cache[1], k)]
    /\ rresult' = Call("delete", k, EntryIndex(cache[1], k) # 0, 0, 0)
    /\ rin' = [rin EXCEPT !.calls = @ + 1]
    /\ LruFrame

\* cache.prune()
LruPrune ==
  /\ rin.calls < LruCalls
  /\ cache' = [cache EXCEPT ![1] = CachePrune(cache[1], now).cache]
  /\ rresult' = Call("prune", "", FALSE, 0, CachePrune(cache[1], now).pruned)
  /\ rin' = [rin EXCEPT !.calls = @ + 1]
  /\ LruFrame

\* cache.clear()
LruClear ==
  /\ rin.calls < LruCalls
  /\ cache' = [cache EXCEPT ![1] = CacheClear(cache[1])]
  /\ rresult' = Call("clear", "", FALSE, 0, 0)
  /\ rin' = [rin EXCEPT !.calls = @ + 1, !.gets = 0]
  /\ LruFrame

\* Date.now() advances between two calls
LruTick ==
  /\ now < MaxTime
  /\ now' = now + 1
  /\ UNCHANGED <<kv, cache, patternCache, heap, tasks, lastChange, started, resolveVars>>

LruNext ==
  \/ LruGet
  \/ LruSet
  \/ LruHas
  \/ LruDelete
  \/ LruPrune
  \/ LruClear
  \/ LruTick

SpecLru == InitLru /\ [][LruNext]_vars

(***************************************************************************)
(* validateDestinationUrl on one destination, for the origin of a request  *)
(* to a.co, under every allow-list and both settings of                    *)
(* allowExternalRedirects.                                                 *)
(***************************************************************************)
ValidateDestinations ==
  {<<"j","a","v","a","s","c","r","i","p","t",":","x">>,
   <<"J","a","v","a","S","c","r","i","p","t",":","x">>,
   <<"d","a","t","a",":","x">>,
   <<"f","i","l","e",":","/","/","/","x">>,
   <<"v","b","s","c","r","i","p","t",":","x">>,
   <<"a","b","o","u","t",":","x">>,
   <<"b","l","o","b",":","x">>,
   <<"f","t","p",":","/","/","a",".","c","o","/","x">>,
   <<"f","t","p",":">>,
   <<"m","a","i","l","t","o",":","x">>,
   <<"w","s",":","/","/","a",".","c","o","/","x">>,
   <<"h","t","t","p","s",":","/","/","a",".","c","o","/","b">>,
   <<"h","t","t","p",":","/","/","e",".","c","o","/","b">>,
   <<"h","t","t","p","s",":","/","/">>,
   <<"/","b">>,
   <<"/","/","e",".","c","o","/","b">>,
   <<"b">>,
   <<"h","t","t","p","s",":","/","/","w","w","w",".","e",".","c","o","/","b">>,
   <<"h","t","t","p","s",":","/","/","s",".","e",".","c","o","/","b">>,
   <<"h","t","t","p","s",":","/","/","E",".","C","O","/","b">>,
   <<"h","t","t","p","s",":","/","/","x","e",".","c","o","/","b">>}

ValidateAllowLists ==
  {<<>>, <<HostA>>, <<HostE>>, <<<<"*", ".">> \o HostA>>, <<HostA, HostE>>,
   <<<<"*", ".">> \o HostE>>, <<<<"E",".","C","O">>>>}

InitValidate ==
  /\ kv = NoData
  /\ cache = [e \in Engines |-> NewCache]
  /\ patternCache = [e \in Engines |-> {}]
  /\ heap = [id \in ObjIds |-> FreeObj]
  /\ tasks = [t \in Tasks |-> IdleTask]
  /\ now = 0
  /\ lastChange = 0
  /\ started = 0
  /\ rin \in [destination : ValidateDestinations, allowedDomains : ValidateAllowLists,
              allowExternalRedirects : BOOLEAN]
  /\ rphase = "input"
  /\ rresult = [verdict |-> "none"]
  /\ rresponse = Outcome(0, <<>>, 0, FALSE)

\* validateDestinationUrl(destination, url.origin, allowedDomains, allowExternalRedirects)
Validate ==
  /\ rphase = "input"
  /\ rphase' = "validated"
  /\ rresult' = [verdict |->
                   validateDestinationUrl(rin.destination, SchemeHttps \o HostA,
                                          rin.allowedDomains, rin.allowExternalRedirects)]
  /\ UNCHANGED <<engineVars, rin, rresponse>>

SpecValidate == InitValidate /\ [][Validate]_vars

(***************************************************************************)
(* validateRedirectPattern on one text: a core text, as it is or padded    *)
(* with the letter a to the maximal length or to one character more.       *)
(***************************************************************************)
PatternCores ==
  {<<>>,
   <<"/">>,
   <<"/","p","/","*","/","f">>,
   <<"/","(","a","+",")","+">>,
   <<"/","p","/","*","*","/","f">>,
   <<"/","a","/",":","v","/","u","/",":","i","d","?","f","=","j">>,
   <<"(","a",")","+">>,
   <<"/","a"," ","b">>,
   <<"/","(","a","*",")">>,
   <<"/","a","*","*">>,
   <<"*","*","(">>,
   <<"/","a","/",":","x","*">>,
   <<"/","a",".","b">>,
   <<"/","a","+">>,
   <<"/","a","?","b","=","c">>,
   <<"/",":","a","/",":","b">>,
   <<"/","a",",","b">>,
   <<"/","a","$">>,
   <<"a",".","c","o","/","p">>,
   <<"h","t","t","p","s",":","/","/","a",".","c","o","/","p">>,
   <<"/","%","7","E","/","@","!","~">>,
   <<"/","a","/","*">>,
   <<"*">>,
   <<"/","a","(","b",")","*">>,
   <<"/","*","/","*">>}

Padded(core, length) == core \o [i \in 1..(length - Len(core)) |-> "a"]

PatternInputs ==
  {Padded(core, Len(core) + extra) : core \in PatternCores, extra \in 0..1}
  \cup {Padded(core, length) : core \in PatternCores,
          length \in {MAX_PATTERN_LENGTH, MAX_PATTERN_LENGTH + 1}}

InitPatternText ==
  /\ kv = NoData
  /\ cache = [e \in Engines |-> NewCache]
  /\ patternCache = [e \in Engines |-> {}]
  /\ heap = [id \in ObjIds |-> FreeObj]
  /\ tasks = [t \in Tasks |-> IdleTask]
  /\ now = 0
  /\ lastChange = 0
  /\ started = 0
  /\ rin \in [pattern : PatternInputs]
  /\ rphase = "input"
  /\ rresult = [verdict |-> "none"]
  /\ rresponse = Outcome(0, <<>>, 0, FALSE)

\* validateRedirectPattern(pattern)
ValidatePattern ==
  /\ rphase = "input"
  /\ rphase' = "validated"
  /\ rresult' = [verdict |-> validateRedirectPattern(rin.pattern)]
  /\ UNCHANGED <<engineVars, rin, rresponse>>

SpecPatternText == InitPatternText /\ [][ValidatePattern]_vars

(***************************************************************************)
(* matchRedirect with its two caches, over a store that does not change.   *)
(* rin is one service and its store: the payload of the store, the rule    *)
(* table the bounded cache holds, and the pattern cache as a function from *)
(* the pattern to what compilePattern stored for it.  rresult is the last  *)
(* call: what it returned, what the same call returns on a service with    *)
(* empty caches, and what the implementation without caches returns.       *)
(***************************************************************************)
\* a faulty compilePattern, which takes any entry of a warm pattern cache
\* for the entry of the pattern
CompiledForAnyKey(pcache, pattern) ==
  IF DOMAIN pcache # {} THEN pcache[CHOOSE p \in DOMAIN pcache : TRUE]
  ELSE CompileText(pattern)

\* compilePattern(pattern): the compiled pattern it returns
CompiledFor(pcache, pattern) ==
  IF pattern \in DOMAIN pcache THEN pcache[pattern] ELSE CompileText(pattern)

\* the pattern cache after compilePattern(pattern); new RegExp throws before
\* this.patternCache.set
Remembered(pcache, pattern) ==
  IF pattern \in DOMAIN pcache \/ ~ParseRegex(CompileText(pattern).source).ok
    THEN pcache
    ELSE [p \in DOMAIN pcache \cup {pattern} |->
            IF p = pattern THEN CompileText(pattern) ELSE pcache[p]]

\* matchPattern(path, pattern) of the service with caches
matchPatternCached(path, pattern, pcache) ==
  MatchWith(path, CompiledFor(pcache, pattern))

OrPathMatchCached(first, pattern, url, pcache) ==
  IF first.threw \/ first.ok THEN first
  ELSE matchPatternCached(PathKey(url), pattern, Remembered(pcache, pattern))

CachedParams(pattern, url, pcache) ==
  IF startsWith(pattern, HttpPrefix)
    THEN matchPatternCached(FullUrlKey(url), pattern, pcache)
  ELSE IF startsWith(pattern, <<"/">>)
    THEN matchPatternCached(PathKey(url), pattern, pcache)
  ELSE OrPathMatchCached(matchPatternCached(HostAndPathKey(url), pattern, pcache),
                         pattern, url, pcache)

CachedResult(threw, matched, key, hasParams, params, pcache) ==
  [threw |-> threw, matched |-> matched, key |-> key, hasParams |-> hasParams,
   params |-> params, pcache |-> pcache]

\* the pattern iteration from entry i on, with the pattern cache
RECURSIVE CachedLoop(_, _, _, _, _, _)
CachedStep(redirectMap, i, url, request, at, pcache, m, round) ==
  IF round = "continue"
    THEN CachedLoop(redirectMap, i + 1, url, request, at, pcache)
  ELSE IF round = "throw" THEN CachedResult(TRUE, FALSE, <<>>, FALSE, <<>>, pcache)
  ELSE IF round = "return"
    THEN CachedResult(FALSE, TRUE, redirectMap[i][1], TRUE, m.params,
                      Remembered(pcache, redirectMap[i][1]))
  ELSE CachedLoop(redirectMap, i + 1, url, request, at,
                  Remembered(pcache, redirectMap[i][1]))

CachedRound(redirectMap, i, url, request, at, pcache, m) ==
  CachedStep(redirectMap, i, url, request, at, pcache, m,
             RoundOf(redirectMap[i][2], m, url, request, at))

CachedLoop(redirectMap, i, url, request, at, pcache) ==
  IF i > Len(redirectMap) THEN CachedResult(FALSE, FALSE, <<>>, FALSE, <<>>, pcache)
  ELSE CachedRound(redirectMap, i, url, request, at, pcache,
                   CachedParams(redirectMap[i][1], url, pcache))

CachedFrom(redirectMap, keys, hit, url, request, at, pcache) ==
  IF hit # 0 THEN CachedResult(FALSE, TRUE, keys[hit], FALSE, <<>>, pcache)
  ELSE CachedLoop(redirectMap, 1, url, request, at, pcache)

\* matchRedirect of the service with caches, after getRedirectMap
matchRedirectCached(redirectMap, url, request, at, pcache) ==
  CachedFrom(redirectMap, ExactKeys(url),
             FirstExactHit(redirectMap, ExactKeys(url), 1, url, request, at),
             url, request, at, pcache)

NoCachedTable == [cached |-> FALSE, map |-> <<>>]
NoPatterns == <<>>

\* getRedirectMap: the cached table, or the decoded payload, or null
TableOf(service) ==
  IF service.table.cached THEN [ok |-> TRUE, map |-> service.table.map]
  ELSE IF service.store.present /\ Decode(service.store).ok
    THEN [ok |-> TRUE, map |-> Decode(service.store).map]
  ELSE [ok |-> FALSE, map |-> <<>>]

\* the RedirectResult of a call: matched, redirect and params, or thrown
Answer(table, m) ==
  IF ~table.ok THEN [threw |-> FALSE, matched |-> FALSE, rule |-> <<>>, params |-> <<>>]
  ELSE IF m.threw THEN [threw |-> TRUE, matched |-> FALSE, rule |-> <<>>, params |-> <<>>]
  ELSE IF ~m.matched
    THEN [threw |-> FALSE, matched |-> FALSE, rule |-> <<>>, params |-> <<>>]
  ELSE [threw |-> FALSE, matched |-> TRUE, rule |-> <<Lookup(table.map, m.key)>>,
        params |-> IF m.hasParams THEN <<m.params>> ELSE <<>>]

\* matchRedirect(url) of the service
CachedAnswer(service, url) ==
  Answer(TableOf(service),
         matchRedirectCached(TableOf(service).map, url, NoRequest, 0, service.patterns))

\* matchRedirect(url) of the implementation without caches on the store
UncachedAnswer(store, url) ==
  Answer([ok |-> store.present /\ Decode(store).ok, map |-> Decode(store).map],
         matchRedirect(Decode(store).map, url, NoRequest, 0))

Cold(service) == [service EXCEPT !.table = NoCachedTable, !.patterns = NoPatterns]

\* the service after the call: cache.set and patternCache.set
AfterMatch(service, table, url) ==
  IF ~table.ok THEN service
  ELSE [service EXCEPT
          !.table = [cached |-> TRUE, map |-> table.map],
          !.patterns = matchRedirectCached(table.map, url, NoRequest, 0, @).pcache]

WarmStores ==
  {Encode(m) : m \in ResolveMaps} \cup {NoData, UnparsableData, SchemaInvalidData}

InitWarm ==
  /\ kv = NoData
  /\ cache = [e \in Engines |-> NewCache]
  /\ patternCache = [e \in Engines |-> {}]
  /\ heap = [id \in ObjIds |-> FreeObj]
  /\ tasks = [t \in Tasks |-> IdleTask]
  /\ now = 0
  /\ lastChange = 0
  /\ started = 0
  /\ rin \in {[store |-> s, table |-> NoCachedTable, patterns |-> NoPatterns] :
                s \in WarmStores}
  /\ rphase = "idle"
  /\ rresult = [url |-> Url(<<>>, <<>>, <<>>), warm |-> Answer([ok |-> FALSE], <<>>),
                cold |-> Answer([ok |-> FALSE], <<>>),
                free |-> Answer([ok |-> FALSE], <<>>), wasWarm |-> FALSE]
  /\ rresponse = Outcome(0, <<>>, 0, FALSE)

\* await service.matchRedirect(url, request)
WarmMatch ==
  \E url \in ResolveUrls :
    /\ rphase' = "matched"
    /\ rresult' = [url |-> url, warm |-> CachedAnswer(rin, url),
                   cold |-> CachedAnswer(Cold(rin), url),
                   free |-> UncachedAnswer(rin.store, url),
                   wasWarm |-> rin.table.cached /\ rin.patterns # NoPatterns]
    /\ rin' = AfterMatch(rin, TableOf(rin), url)
    /\ UNCHANGED <<engineVars, rresponse>>

\* service.clearCache(), or the entry of the rule table expires
WarmClearCache ==
  /\ rin.table.cached
  /\ rin' = [rin EXCEPT !.table = NoCachedTable]
  /\ UNCHANGED <<engineVars, rphase, rresult, rresponse>>

\* service.clearPatternCache()
WarmClearPatternCache ==
  /\ rin.patterns # NoPatterns
  /\ rin' = [rin EXCEPT !.patterns = NoPatterns]
  /\ UNCHANGED <<engineVars, rphase, rresult, rresponse>>

WarmNext ==
  \/ WarmMatch
  \/ WarmClearCache
  \/ WarmClearPatternCache

SpecWarm == InitWarm /\ [][WarmNext]_vars

(***************************************************************************)
(* Properties of the resolution of one request (SpecResolve).              *)
(***************************************************************************)
\* C1: processRedirect answers with a redirect (a 3xx status) only if
\* validateDestinationUrl accepts the final, substituted absolute target URL;
\* a target that fails the validation is never redirected to.
C1_RedirectOnlyToValidatedTarget ==
  (rphase = "processed" /\ rresponse.status \in 300..399) =>
    validateDestinationUrl(rresponse.location, Origin(rin.url),
                           rin.allowedDomains, rin.allowExternal) = "ok"

\* the rule of entry is enabled, its pattern matches the request and its
\* conditions hold
Eligible(entry, url, request, at) ==
  /\ entry[2].enabled
  /\ PatternParams(entry[1], url).ok
  /\ checkConditions(entry[2], url, request, at)

\* the first entry from i on that is eligible, in the order of the map; 0
\* when there is none
RECURSIVE FirstEligible(_, _, _, _, _)
FirstEligible(redirectMap, i, url, request, at) ==
  IF i > Len(redirectMap) THEN 0
  ELSE IF Eligible(redirectMap[i], url, request, at) THEN i
  ELSE FirstEligible(redirectMap, i + 1, url, request, at)

NoExactHit ==
  FirstExactHit(rin.map, ExactKeys(rin.url), 1, rin.url, rin.request, rin.now) = 0

ReturnsEntry(result, redirectMap, first) ==
  IF first = 0 THEN ~result.matched
  ELSE result.matched /\ result.hasParams /\ result.key = redirectMap[first][1]

\* C2: when no exact-key lookup succeeds, matchRedirect returns the first
\* rule, in the order of the rule table, that is enabled, whose pattern
\* matches the request and whose conditions hold; never a later one, and no
\* rule when there is none.
C2_FirstEligiblePatternWins ==
  (rphase # "input" /\ ~rresult.threw /\ NoExactHit) =>
    ReturnsEntry(rresult, rin.map,
                 FirstEligible(rin.map, 1, rin.url, rin.request, rin.now))

\* two rules of the table are eligible, and the earlier one is returned
C2_TwoEligibleRules ==
  /\ rphase = "matched"
  /\ NoExactHit
  /\ Len(rin.map) = 2
  /\ Eligible(rin.map[1], rin.url, rin.request, rin.now)
  /\ Eligible(rin.map[2], rin.url, rin.request, rin.now)
  /\ rresult.matched
  /\ rresult.key = rin.map[1][1]

ReturnsExact(result, redirectMap, url, request, at) ==
  /\ ExactHit(redirectMap, PathKey(url), url, request, at)
       => result = Exact(PathKey(url))
  /\ (/\ ~ExactHit(redirectMap, PathKey(url), url, request, at)
      /\ ExactHit(redirectMap, FullUrlKey(url), url, request, at))
       => result = Exact(FullUrlKey(url))
  /\ (/\ ~ExactHit(redirectMap, PathKey(url), url, request, at)
      /\ ~ExactHit(redirectMap, FullUrlKey(url), url, request, at)
      /\ ExactHit(redirectMap, HostAndPathKey(url), url, request, at))
       => result = Exact(HostAndPathKey(url))

\* C3: matchRedirect tries the exact keys (the lowercased path, full URL and
\* host+path, in that order) before any pattern, and returns the first exact
\* hit whose conditions pass, without parameters and without compiling a
\* pattern, even when a pattern inserted earlier matches too.
C3_ExactLookupsFirst ==
  rphase # "input" => ReturnsExact(rresult, rin.map, rin.url, rin.request, rin.now)

\* a pattern rule that matches the path was inserted before the rule whose
\* source is the path, and the latter is returned
C3_ExactAfterPattern ==
  /\ rphase = "matched"
  /\ Len(rin.map) = 2
  /\ rin.map[1][1] # PathKey(rin.url)
  /\ Eligible(rin.map[1], rin.url, rin.request, rin.now)
  /\ rin.map[2][1] = PathKey(rin.url)
  /\ rresult = Exact(PathKey(rin.url))

\* C4: matchRedirect never returns a rule with enabled = false, by an exact
\* key or by a pattern.
C4_DisabledNeverReturned ==
  (rphase # "input" /\ rresult.matched) => Lookup(rin.map, rresult.key).enabled

\* the table holds a disabled rule whose source is the request's path, and
\* another rule is returned
C4_DisabledExactSkipped ==
  /\ rphase = "matched"
  /\ HasKey(rin.map, PathKey(rin.url))
  /\ ~Lookup(rin.map, PathKey(rin.url)).enabled
  /\ rresult.matched

(***************************************************************************)
(* Properties of the services (Spec, SpecTimed).                           *)
(***************************************************************************)
\* the call t returns from a mutation that wrote the store
MutationReturns(t) == tasks[t].pc = "afterPut" /\ tasks'[t].pc = "done"

\* C5: when a saveRedirect, saveBulkRedirects or deleteRedirect returns after
\* its write, getCacheStats().patternCacheSize of its service is 0 and the
\* bounded cache holds no entry for the redirect map.
C5_MutationClearsCaches ==
  [][\A t \in Tasks :
       MutationReturns(t) =>
         /\ getCacheStats(cache'[tasks[t].engine],
                          patternCache'[tasks[t].engine]).patternCacheSize = 0
         /\ EntryIndex(cache'[tasks[t].engine], REDIRECT_MAP_CACHE_KEY) = 0]_vars

\* a mutation returned on a service whose pattern cache held patterns
C5_ClearedPatterns ==
  \E t \in Tasks :
    /\ tasks[t].pc = "done"
    /\ tasks[t].result.kind \in {"ok", "true"}
    /\ tasks[t].result.cleared > 0

\* C6: a getRedirectMap or matchRedirect that starts later than CacheTtl
\* after the last change of the store works on the table the store holds.
C6_FreshAfterTtl ==
  \A t \in Tasks :
    (/\ tasks[t].pc = "done"
     /\ tasks[t].op \in {"match", "get"}
     /\ tasks[t].start > lastChange + CacheTtl)
      => tasks[t].current

StoreHasSource(d, source) == d.ok /\ HasKey(d.map, source)

\* C7: when the only two calls are saveRedirect calls for different sources
\* that run concurrently and both return successfully, the store holds both
\* rules.
C7_NoLostUpdate ==
  \A t, u \in Tasks :
    (/\ started = 2
     /\ t # u
     /\ tasks[t].op = "save" /\ tasks[t].pc = "done" /\ tasks[t].result.kind = "ok"
     /\ tasks[u].op = "save" /\ tasks[u].pc = "done" /\ tasks[u].result.kind = "ok"
     /\ t \in tasks[u].conc
     /\ tasks[t].rule.source # tasks[u].rule.source)
      => /\ StoreHasSource(Decode(kv), tasks[t].rule.source)
         /\ StoreHasSource(Decode(kv), tasks[u].rule.source)

HasInvalidSource(batch) == \E i \in DOMAIN batch : ~PatternValid(batch[i].source)

SourcesOf(rules) == [i \in DOMAIN rules |-> rules[i].source]

RejectedSources(batch) ==
  SourcesOf(SelectSeq(batch, LAMBDA r : ~PatternValid(r.source)))

\* C8: a saveBulkRedirects whose batch has a source validateRedirectPattern
\* rejects never writes the store: none of its steps changes the store or
\* reaches the put, and it ends with an error that names the invalid sources.
C8_BulkAllOrNothing ==
  [][\A t \in Tasks :
       (/\ tasks[t].op = "bulk"
        /\ HasInvalidSource(tasks[t].batch)
        /\ tasks'[t] # tasks[t])
         => /\ kv' = kv
            /\ tasks'[t].pc \notin {"put", "afterPut"}
            /\ ~tasks'[t].wrote
            /\ tasks'[t].pc = "done" =>
                 /\ tasks'[t].result.kind = "error"
                 /\ tasks'[t].result.invalid = RejectedSources(tasks[t].batch)]_vars

\* a batch with a valid and an invalid rule was rejected while the store held
\* a table, and the valid rule of the batch is not in it
C8_BatchRejected ==
  \E t \in Tasks :
    /\ tasks[t].op = "bulk"
    /\ tasks[t].pc = "done"
    /\ tasks[t].result.kind = "error"
    /\ Len(tasks[t].result.invalid) < Len(tasks[t].batch)
    /\ kv.present
    /\ \E i \in DOMAIN tasks[t].batch :
         /\ PatternValid(tasks[t].batch[i].source)
         /\ ~StoreHasSource(Decode(kv), tasks[t].batch[i].source)

\* the origin of the requests the services resolve
RequestOrigin == Origin(Url(HostA, <<"/">>, <<>>))

DestinationsValid(d) ==
  d.ok /\ \A i \in DOMAIN d.map :
            validateDestinationUrl(d.map[i][2].destination, RequestOrigin,
                                   EngineAllowedDomains, EngineAllowExternal) = "ok"

\* C9: no rule whose destination validateDestinationUrl rejects is ever
\* accepted into the rule table.
C9_StoredDestinationsValid == kv.present => DestinationsValid(Decode(kv))

SourcesValid(d) ==
  d.ok /\ \A i \in DOMAIN d.map :
            PatternValid(d.map[i][1]) /\ d.map[i][1] = d.map[i][2].source

\* C10: from an empty store, after any calls of saveRedirect,
\* saveBulkRedirects and deleteRedirect, every rule of the store has a source
\* validateRedirectPattern accepts, and so has every pattern a service compiled.
C10_OnlyValidatedPatterns ==
  /\ kv.present => SourcesValid(Decode(kv))
  /\ \A e \in Engines : \A pattern \in patternCache[e] : PatternValid(pattern)

\* a save was rejected, the store holds rules and a service compiled one
C10_RejectedAndCompiled ==
  /\ kv.present
  /\ Decode(kv).map # <<>>
  /\ \E t \in Tasks : tasks[t].pc = "done" /\ tasks[t].result.kind = "error"
  /\ \E e \in Engines : patternCache[e] # {}
(***************************************************************************)
(* Properties of one engine under calls made one after the other (SpecSeq).*)
(***************************************************************************)
\* the table reflects the mutation m, which returned with success
Reflects(table, m) ==
  CASE m.op = "save" /\ m.result.kind = "ok" ->
         HasKey(table, m.rule.source) /\ Lookup(table, m.rule.source) = m.rule
    [] m.op = "bulk" /\ m.result.kind = "ok" ->
         \A i \in DOMAIN m.batch :
           /\ HasKey(table, m.batch[i].source)
           /\ Lookup(table, m.batch[i].source) =
                m.batch[CHOOSE j \in DOMAIN m.batch :
                          /\ m.batch[j].source = m.batch[i].source
                          /\ \A k \in DOMAIN m.batch :
                               m.batch[k].source = m.batch[i].source => k <= j]
    [] m.op = "delete" /\ m.result.kind = "true" -> ~HasKey(table, m.source)
    [] OTHER -> TRUE

\* getRedirectMap was the next call on the engine of the call in slot t
GetFollows(t) ==
  /\ t + 1 \in Tasks
  /\ tasks[t].pc = "done"
  /\ tasks[t + 1].op = "get"
  /\ tasks[t + 1].engine = tasks[t].engine

\* that getRedirectMap returns in this step
GetReturns(t) ==
  /\ GetFollows(t)
  /\ tasks[t + 1].pc = "resume"
  /\ tasks'[t + 1].pc = "done"

DefiniteOutcome(response) ==
  /\ ~response.threw
  /\ response.status \in RedirectStatuses \cup (300..399) \cup {403, 404}

\* C12: resolution never throws: for every stored rule the schema accepts and
\* every request, matchRedirect raises no exception, and processRedirect
\* raises none and ends in a redirect, a 403 or a 404
C12_ResolutionNeverThrows ==
  /\ rphase # "input" => ~rresult.threw
  /\ rphase = "processed" => DefiniteOutcome(rresponse)

\* the store holds a payload that JSON.parse or RedirectMapSchema rejects
BadPayload(data) == data.present /\ ~Decode(data).ok

\* getRedirectMap decodes a bad payload: it returns null and leaves the cache
DecodeFails(t) ==
  /\ tasks[t].pc = "decode"
  /\ tasks'[t].pc # "decode"
  /\ BadPayload(tasks[t].data)
  => /\ tasks'[t].pc = "resume"
     /\ tasks'[t].map = 0
     /\ cache' = cache

\* the caller of a getRedirectMap that returned null: matchRedirect returns
\* matched = false, a direct call gets null
NoTableResult(t) ==
  /\ tasks[t].pc = "resume"
  /\ tasks'[t].pc = "done"
  /\ tasks[t].map = 0
  => /\ tasks[t].op = "match" => tasks'[t].result.kind = "nomatch"
     /\ tasks[t].op = "get" => tasks'[t].result.kind = "null"

\* a call that reaches getRedirectMap while the store holds a bad payload
\* goes to the store
FetchesAgain(t) ==
  /\ tasks[t].pc = "idle"
  /\ tasks'[t].pc \notin {"idle", "done"}
  /\ BadPayload(kv)
  => tasks'[t].pc = "kvget"

\* C13: when the stored payload is unparsable or fails schema validation,
\* getRedirectMap returns no table, matchRedirect returns matched = false
\* without throwing, nothing is written to the cache, and the next call
\* fetches from the store again
C13_DecodeFailureIsNoTable ==
  [][\A t \in Tasks : DecodeFails(t) /\ NoTableResult(t) /\ FetchesAgain(t)]_vars

\* two calls in a row missed the cache of one engine over a bad payload, and
\* the second, a matchRedirect, returned matched = false
C13_MissedTwice ==
  \E t \in Tasks :
    /\ tasks[t].pc = "done"
    /\ tasks[t].op = "match"
    /\ tasks[t].result.kind = "nomatch"
    /\ BadPayload(kv)
    /\ cache[tasks[t].engine].misses >= 2
    /\ CacheSize(cache[tasks[t].engine]) = 0

(***************************************************************************)
(* Properties of matchPattern and of the substitution (SpecPattern).       *)
(* The tokens of a pattern, read left to right: a literal character,       *)
(* ":name*" (wild), ":name" (seg) and a bare "*" (wild, named _splat<k>).  *)
(***************************************************************************)
Token(kind, name, ch) == [kind |-> kind, name |-> name, ch |-> ch]

\* the tokens of pattern from position i on, k bare wildcards seen so far
RECURSIVE Tokens(_, _, _)
Tokens(pattern, i, k) ==
  IF i > Len(pattern) THEN <<>>
  ELSE
    LET n == IF pattern[i] = ":" THEN NameRun(pattern, i + 1) ELSE 0
        star == n >= 1 /\ i + n + 1 <= Len(pattern) /\ pattern[i + n + 1] = "*"
        name == SubSeq(pattern, i + 1, i + n)
    IN IF star THEN <<Token("wild", name, "")>> \o Tokens(pattern, i + n + 2, k)
       ELSE IF n >= 1 THEN <<Token("seg", name, "")>> \o Tokens(pattern, i + n + 1, k)
       ELSE IF pattern[i] = "*"
         THEN <<Token("wild", SplatPrefix \o Digits(k), "")>> \o Tokens(pattern, i + 1, k + 1)
       ELSE <<Token("lit", <<>>, pattern[i])>> \o Tokens(pattern, i + 1, k)

\* the names of the capturing tokens, left to right
TokenNames(tokens) ==
  LET capturing == SelectSeq(tokens, LAMBDA tk : tk.kind # "lit")
  IN [c \in DOMAIN capturing |-> capturing[c].name]

\* every way the tokens from i on spell the path from position j to its end:
\* the set of the sequences of the texts of the capturing tokens
RECURSIVE Splits(_, _, _, _)
Splits(tokens, i, path, j) ==
  IF i > Len(tokens) THEN (IF j > Len(path) THEN {<<>>} ELSE {})
  ELSE IF tokens[i].kind = "lit"
    THEN IF j <= Len(path) /\ path[j] = tokens[i].ch
           THEN Splits(tokens, i + 1, path, j + 1) ELSE {}
  ELSE
    UNION {{<<SubSeq(path, j, k)>> \o rest : rest \in Splits(tokens, i + 1, path, k + 1)} :
             k \in {m \in (j - 1)..Len(path) :
                      tokens[i].kind = "seg" =>
                        m >= j /\ \A x \in j..m : path[x] # "/"}}

\* params binds the names of the tokens to the texts of one way of spelling
\* the path
BindsOwnTokens(params, names, splits) ==
  \E s \in splits :
    \A c \in DOMAIN names : HasKey(params, names[c]) /\ Lookup(params, names[c]) = s[c]

PatternTokens == Tokens(rin.pattern, 1, 0)

\* C14: matchPattern binds each parameter name to the text captured at the
\* position of its own token, whatever the left-to-right order of the
\* ":name", ":name*" and "*" tokens of the pattern
C14_NamesBoundToOwnTokens ==
  rphase # "input" /\ rresult.ok =>
    BindsOwnTokens(rresult.params, TokenNames(PatternTokens),
                   Splits(PatternTokens, 1, rin.path, 1))

\* the number of bare "*" of a pattern without ":"
StarCount(pattern) == Cardinality({i \in DOMAIN pattern : pattern[i] = "*"})
OnlyBareStars(pattern) == ~includes(pattern, <<":">>) /\ StarCount(pattern) >= 1

\* the names _splat0 .. _splat(k-1)
SplatNames(k) == {SplatPrefix \o Digits(i) : i \in 0..(k - 1)}

\* C15: for a pattern whose only tokens are k bare "*", a successful match
\* yields exactly _splat0 .. _splat(k-1), bound to the wildcards' texts from
\* left to right, and splat, equal to the last of them; "/d/*" on "/d/a/b"
\* yields _splat0 = splat = "a/b"
C15_BareStarsNumbered ==
  rphase # "input" /\ OnlyBareStars(rin.pattern) /\ rresult.ok =>
    /\ BindsOwnTokens(rresult.params, TokenNames(PatternTokens),
                      Splits(PatternTokens, 1, rin.path, 1))
    /\ Keys(rresult.params) = SplatNames(StarCount(rin.pattern)) \cup {SplatAlias}
    /\ Lookup(rresult.params, SplatAlias) =
         Lookup(rresult.params, SplatPrefix \o Digits(StarCount(rin.pattern) - 1))
    /\ rin.pattern = DocsStar /\ rin.path = <<"/","d","/","a","/","b">>
         => Lookup(rresult.params, SplatAlias) = <<"a","/","b">>

\* two bare wildcards matched and captured different texts
C15_TwoSplats ==
  /\ rphase = "matched"
  /\ rin.pattern = TwoStars
  /\ rresult.ok
  /\ Lookup(rresult.params, SplatPrefix \o <<"0">>) #
       Lookup(rresult.params, SplatPrefix \o <<"1">>)

\* the pattern has a ":name*" token
HasNamedWildcard(pattern) ==
  \E i \in DOMAIN pattern :
    /\ pattern[i] = ":"
    /\ NameRun(pattern, i + 1) >= 1
    /\ i + NameRun(pattern, i + 1) + 1 <= Len(pattern)
    /\ pattern[i + NameRun(pattern, i + 1) + 1] = "*"

\* C16: a named wildcard ":name*" matches zero or more characters, "/"
\* included: the pattern matches every path its tokens spell, and the name is
\* bound to the text at its token ("/b/:t*" matches "/b/x/y" with t = "x/y"
\* and matches "/b/" with t = "")
C16_NamedWildcardZeroOrMore ==
  rphase # "input" /\ HasNamedWildcard(rin.pattern) =>
    /\ rresult.ok = (Splits(PatternTokens, 1, rin.path, 1) # {})
    /\ rresult.ok =>
         BindsOwnTokens(rresult.params, TokenNames(PatternTokens),
                        Splits(PatternTokens, 1, rin.path, 1))

\* the pattern has literal characters and ":name" tokens only
OnlyPlainParams(pattern) == ~includes(pattern, <<"*">>)

\* C17: a compiled pattern matches the entire candidate string only, and a
\* plain ":name" captures one or more characters other than "/": a pattern of
\* literals and ":name" tokens matches exactly the paths its tokens spell
\* ("/p/:id" matches neither "/p/", nor "/p/1/2", nor "/x/p/1"), and no
\* pattern matches a path its tokens do not spell to the end
C17_AnchoredSegments ==
  rphase # "input" =>
    /\ rresult.ok => Splits(PatternTokens, 1, rin.path, 1) # {}
    /\ OnlyPlainParams(rin.pattern) =>
         /\ rresult.ok = (Splits(PatternTokens, 1, rin.path, 1) # {})
         /\ rresult.ok =>
              BindsOwnTokens(rresult.params, TokenNames(PatternTokens),
                             Splits(PatternTokens, 1, rin.path, 1))
    /\ rin.pattern = ProductsId
         /\ rin.path \in {<<"/","p","/">>, <<"/","p","/","1","/","2">>,
                          <<"/","x","/","p","/","1">>}
         => ~rresult.ok

\* "/p/:id" was tried on "/p/1/2" and did not match
C17_SegmentRefused ==
  /\ rphase = "matched"
  /\ rin.pattern = ProductsId
  /\ rin.path = <<"/","p","/","1","/","2">>
  /\ ~rresult.ok

\* the patterns matchRedirect hands to compilePattern for the table and the
\* URL: none after an exact hit; else those of the enabled entries, in the
\* order of the table, up to the first eligible one
CompiledUpTo(table, first) ==
  {table[j][1] : j \in {i \in DOMAIN table :
                          table[i][2].enabled /\ (first = 0 \/ i <= first)}}

ExpectedCompiled(table, url, at) ==
  IF FirstExactHit(table, ExactKeys(url), 1, url, NoRequest, at) # 0 THEN {}
  ELSE CompiledUpTo(table, FirstEligible(table, 1, url, NoRequest, at))

\* a step of the pattern cache of engine e that compiles the patterns asked:
\* those already cached stay as they are, the others are added
Memoized(e, asked) ==
  /\ patternCache'[e] = patternCache[e] \cup asked
  /\ asked \subseteq patternCache[e] =>
       getCacheStats(cache'[e], patternCache'[e]).patternCacheSize =
         getCacheStats(cache[e], patternCache[e]).patternCacheSize
  /\ \A f \in Engines \ {e} : patternCache'[f] = patternCache[f]

MatchReturns(t) ==
  tasks[t].pc = "resume" /\ tasks[t].op = "match" /\ tasks'[t].pc = "done"

\* C18: compilation is memoized by pattern text: a matchRedirect adds to the
\* pattern cache the patterns it compiles that are not cached yet and leaves
\* the cached ones (a call that compiles cached patterns only does not grow
\* the cache, so its size is the number of distinct patterns compiled since
\* the last clear); a mutation that completes empties the cache, so the next
\* compile of a pattern builds a fresh entry; no other step changes the cache
C18_CompileMemoized ==
  [][/\ \A t \in Tasks :
          /\ MatchReturns(t) =>
               Memoized(tasks[t].engine,
                        ExpectedCompiled(MapOf(heap, tasks[t].map), tasks[t].url, now))
          /\ MutationReturns(t) => patternCache'[tasks[t].engine] = {}
     /\ patternCache' # patternCache =>
          \E t \in Tasks : MatchReturns(t) \/ MutationReturns(t)]_vars

\* two matchRedirect calls in a row on a new engine: the first compiled two
\* patterns, the second compiled one of them again, and the cache holds two
C18_CompiledAgain ==
  /\ started = 2
  /\ \A t \in Tasks : tasks[t].pc = "done" /\ tasks[t].op = "match" /\ tasks[t].engine = 1
  /\ Decode(kv).ok
  /\ ExpectedCompiled(Decode(kv).map, tasks[2].url, now) # {}
  /\ ExpectedCompiled(Decode(kv).map, tasks[2].url, now) #
       ExpectedCompiled(Decode(kv).map, tasks[1].url, now)
  /\ patternCache[1] = ExpectedCompiled(Decode(kv).map, tasks[1].url, now)
  /\ getCacheStats(cache[1], patternCache[1]).patternCacheSize = 2

\* the destination has the placeholder ":name*"
HasWildcardPlaceholder(destination, name) ==
  includes(destination, <<":">> \o name \o <<"*">>)

\* the destination from position i on with every placeholder of a captured
\* parameter replaced by the parameter's value, all at once: ":name*" by the
\* value of name, ":name" by it when the destination has no ":name*", and
\* the bare "*" number k, k + 1, .. by _splat<k>, _splat<k+1>, ..
RECURSIVE Replaced(_, _, _, _)
Replaced(destination, params, i, k) ==
  IF i > Len(destination) THEN <<>>
  ELSE
    LET n == IF destination[i] = ":" THEN NameRun(destination, i + 1) ELSE 0
        name == SubSeq(destination, i + 1, i + n)
        star == n >= 1 /\ i + n + 1 <= Len(destination) /\ destination[i + n + 1] = "*"
        splat == SplatPrefix \o Digits(k)
    IN IF n >= 1 /\ star /\ HasKey(params, name)
         THEN Lookup(params, name) \o Replaced(destination, params, i + n + 2, k)
       ELSE IF n >= 1 /\ star
         THEN SubSeq(destination, i, i + n + 1) \o Replaced(destination, params, i + n + 2, k)
       ELSE IF n >= 1 /\ HasKey(params, name) /\ ~HasWildcardPlaceholder(destination, name)
         THEN Lookup(params, name) \o Replaced(destination, params, i + n + 1, k)
       ELSE IF destination[i] = "*" /\ HasKey(params, splat)
         THEN Lookup(params, splat) \o Replaced(destination, params, i + 1, k + 1)
       ELSE <<destination[i]>>
            \o Replaced(destination, params, i + 1,
                        IF destination[i] = "*" THEN k + 1 ELSE k)

\* every ":name" and ":name*" placeholder of the destination names a
\* captured parameter
PlaceholdersCaptured(destination, params) ==
  \A i \in DOMAIN destination :
    destination[i] = ":" /\ NameRun(destination, i + 1) >= 1
      => HasKey(params, SubSeq(destination, i + 1, i + NameRun(destination, i + 1)))

\* C19: the substitution loop replaces, for each captured parameter, every
\* ":name*" placeholder of the destination by its value, else every ":name"
\* placeholder, and gives the i-th bare "*" the value of _splat<i>
\* ("/i/:id" becomes "/i/12", "/n/*" becomes "/n/a/b"), for a destination
\* whose placeholders all name captured parameters
C19_PlaceholdersReplaced ==
  rphase = "substituted" /\ PlaceholdersCaptured(rin.destination, rresult.params) =>
    rresponse.substituted = Replaced(rin.destination, rresult.params, 1, 0)

\* a splat value was captured: the params hold _splat0 or splat
SplatCaptured(params) ==
  HasKey(params, SplatPrefix \o <<"0">>) \/ HasKey(params, SplatAlias)

\* the case of the implicit append: a splat was captured, the destination
\* template has no "*" (bare or of a ":name*"), and the destination after
\* the substitution ends with "/"
AppendCase(template, params, substituted) ==
  /\ SplatCaptured(params)
  /\ ~includes(template, <<"*">>)
  /\ endsWith(substituted, <<"/">>)

\* the value of a parameter, empty when it is not bound
ValueOf(params, name) == IF HasKey(params, name) THEN Lookup(params, name) ELSE <<>>

\* the splat value: the splat alias, or _splat0 when the alias is empty
SplatOrFirst(params) ==
  IF ValueOf(params, SplatAlias) # <<>> THEN ValueOf(params, SplatAlias)
  ELSE ValueOf(params, SplatPrefix \o <<"0">>)

\* the destination after the append of value in the append case
AppendsOnly(template, params, substituted, value) ==
  IF AppendCase(template, params, substituted) THEN substituted \o value
  ELSE substituted

\* C20 as stated: in the append case the splat value, the one the splat
\* alias holds, is appended to the destination; in every other case nothing
\* is appended
C20_AppendsSplat ==
  rphase = "substituted" =>
    rresponse.appended =
      AppendsOnly(rin.destination, rresult.params, rresponse.substituted,
                  ValueOf(rresult.params, SplatAlias))

\* C20, amended: in the append case the value appended is the one of the
\* splat alias or, when that is empty, the one of _splat0; in every other
\* case nothing is appended
C20_AppendsSplatOrFirst ==
  rphase = "substituted" =>
    rresponse.appended =
      AppendsOnly(rin.destination, rresult.params, rresponse.substituted,
                  SplatOrFirst(rresult.params))

\* "/d/*" matched "/d/a/b" and the destination "/n/" became "/n/a/b"
C20_SplatAppended ==
  /\ rphase = "substituted"
  /\ rin.pattern = DocsStar
  /\ AppendCase(rin.destination, rresult.params, rresponse.substituted)
  /\ rresponse.appended = rresponse.substituted \o <<"a","/","b">>

(***************************************************************************)
(* Properties of the response to one rule and one request (SpecTarget).    *)
(***************************************************************************)
\* the response is a redirect
IsRedirect(response) == ~response.threw /\ response.status \in RedirectStatuses

\* the query target keeps every key of destQuery with its value there and
\* has every key of the request's query that destQuery lacks, with the
\* request's value, and no other key
QueryMerged(target, destQuery, query) ==
  /\ \A i \in DOMAIN destQuery :
       SearchGet(target, destQuery[i][1]) = SearchGet(destQuery, destQuery[i][1])
  /\ \A i \in DOMAIN query :
       ~HasKey(destQuery, query[i][1]) =>
         SearchGet(target, query[i][1]) = SearchGet(query, query[i][1])
  /\ Keys(target) = Keys(destQuery) \cup Keys(query)

\* the fragment of the target: the request's when it is kept, else the
\* destination's own
HashMerged(target, redirect, destHash, hash) ==
  IF redirect.preserveHash /\ hash # <<>> THEN target = hash ELSE target = destHash

\* target is the redirect's target URL for the parsed destination dest
TargetMerged(target, redirect, dest, url) ==
  /\ target.ok
  /\ IF redirect.preserveQueryParams
       THEN QueryMerged(target.query, dest.query, url.query)
       ELSE target.query = dest.query
  /\ HashMerged(target.hash, redirect, dest.hash, url.hash)

\* C21: with preserveQueryParams the target keeps every query key of the
\* destination with the destination's value and gains every request key the
\* destination lacks; without it no request key is copied; with preserveHash
\* and a request fragment the target's fragment is the request's, otherwise
\* the request's fragment is not copied
C21_QueryAndHashMerged ==
  rphase = "processed" /\ IsRedirect(rresponse) =>
    TargetMerged(ParseUrl(rresponse.location), rin.redirect,
                 ParseDestination(rin.redirect.destination, Origin(rin.url)), rin.url)

\* the request and the destination both define k, the request alone defines
\* m and has a fragment: the target has the destination's k and the
\* request's m and fragment
C21_SharedKeyKept ==
  /\ rphase = "processed"
  /\ IsRedirect(rresponse)
  /\ rin.redirect.preserveQueryParams
  /\ rin.redirect.preserveHash
  /\ rin.redirect.destination = <<"/","b","?","k","=","d">>
  /\ rin.url.query = <<<<KeyK, <<"r">>>>, <<KeyM, <<"s">>>>>>
  /\ rin.url.hash = <<"#","h">>
  /\ ParseUrl(rresponse.location).query = <<<<KeyK, <<"d">>>>, <<KeyM, <<"s">>>>>>
  /\ ParseUrl(rresponse.location).hash = <<"#","h">>

\* the lifetime of the class of a redirect status: a year for the permanent
\* ones, an hour for the others
LifetimeOf(status) == IF status \in {301, 308} THEN 31536000 ELSE 3600

\* matchRedirect returns the same entry whatever the status code of the rule
SameMatchForEveryStatus(result, redirect, url) ==
  \A s \in RedirectStatuses :
    matchRedirect(SavedMap(<<>>, [redirect EXCEPT !.statusCode = s]), url, NoRequest, 0)
      = result

\* C22: every redirect response has the rule's statusCode and a
\* Cache-Control and a CDN-Cache-Control of "public, max-age=<ttl>", ttl
\* being 31536000 for 301 and 308 and 3600 for every other redirect status;
\* the status code has no effect on which rule matches
C22_StatusAndLifetime ==
  /\ rphase = "processed" /\ IsRedirect(rresponse) =>
       /\ rresponse.status = rin.redirect.statusCode
       /\ rresponse.maxAge = LifetimeOf(rin.redirect.statusCode)
       /\ rresponse.cdnMaxAge = LifetimeOf(rin.redirect.statusCode)
  /\ rphase = "matched" => SameMatchForEveryStatus(rresult, rin.redirect, rin.url)

\* a 308 was answered with the lifetime of a year
C22_PermanentRedirect ==
  /\ rphase = "processed"
  /\ IsRedirect(rresponse)
  /\ rin.redirect.statusCode = 308
  /\ rresponse.status = 308
  /\ rresponse.maxAge = 31536000

(***************************************************************************)
(* Properties of the condition evaluator (SpecCondition).                  *)
(***************************************************************************)
\* every sub-condition that is present in c holds for the request at time at
SubConditionsHold(c, url, request, at) ==
  /\ c.hostname # <<>> => c.hostname = url.hostname
  /\ \A i \in DOMAIN c.queryParams :
       SearchGet(url.query, c.queryParams[i][1]) =
         [found |-> TRUE, value |-> c.queryParams[i][2]]
  /\ \A i \in DOMAIN c.headers :
       HeaderGet(request.headers, c.headers[i][1]) =
         [found |-> TRUE, value |-> c.headers[i][2]]
  /\ c.hasRange /\ c.start # NoDate => c.start <= at
  /\ c.hasRange /\ c.end # NoDate => c.end >= at

Passes(redirect, url, request, at) ==
  /\ redirect.enabled
  /\ redirect.conditions.has => SubConditionsHold(redirect.conditions, url, request, at)

EqualsUpToCase(source, url) ==
  toLowerCase(source) \in {PathKey(url), FullUrlKey(url), HostAndPathKey(url)}

\* C24: a rule saved with source S matches a request whose path, full URL
\* or host+path equals S up to letter case, whatever the letter case of S
\* and of the request
C24_CaseInsensitive ==
  rphase = "matched" /\ EqualsUpToCase(rin.redirect.source, rin.url)
    => rresult.matched

\* the same for sources saved in lower case only
LowerCaseSourcesMatch ==
  /\ rphase = "matched"
  /\ EqualsUpToCase(rin.redirect.source, rin.url)
  /\ rin.redirect.source = toLowerCase(rin.redirect.source)
  => rresult.matched

\* the source starts with an HTTP scheme
HasHttpScheme(source) ==
  \/ startsWith(source, SchemeHttps)
  \/ startsWith(source, <<"h","t","t","p",":","/","/">>)

\* the source is looked up as a key before the iteration
IsExactKey(source, url) ==
  source \in {PathKey(url), FullUrlKey(url), HostAndPathKey(url)}

\* the match of a source by the class of its prefix
ClassMatches(source, url) ==
  IF HasHttpScheme(source) THEN matchPattern(FullUrlKey(url), source).ok
  ELSE IF startsWith(source, <<"/">>) THEN matchPattern(PathKey(url), source).ok
  ELSE \/ matchPattern(HostAndPathKey(url), source).ok
       \/ matchPattern(PathKey(url), source).ok

\* C25: in the iteration a source that starts with an HTTP scheme is
\* matched against the full URL, one that starts with a slash against the
\* path, and every other source, a host name that begins with the letters
\* http included, against host+path and then against the path alone
C25_ClassifiedByPrefix ==
  rphase = "matched" /\ ~IsExactKey(rin.redirect.source, rin.url)
    => rresult.matched = ClassMatches(rin.redirect.source, rin.url)

\* the same for sources that do not begin with the letters http, or begin
\* with an HTTP scheme
ClassifiedUnlessHttpHost ==
  /\ rphase = "matched"
  /\ ~IsExactKey(rin.redirect.source, rin.url)
  /\ startsWith(rin.redirect.source, HttpPrefix) => HasHttpScheme(rin.redirect.source)
  => rresult.matched = ClassMatches(rin.redirect.source, rin.url)

(***************************************************************************)
(* Properties of the LRU cache (SpecLru).                                  *)
(***************************************************************************)
Lru == cache[1]
KeysOf(c) == {c.entries[i].key : i \in DOMAIN c.entries}
EntryOf(c, k) == c.entries[EntryIndex(c, k)]

\* this step is a call of the operation op
Called(op) == rin'.calls = rin.calls + 1 /\ rresult'.op = op

\* the key of the cache that a get hit or a set touched least recently
LeastRecent(c, history) ==
  CHOOSE k \in KeysOf(c) : \A j \in KeysOf(c) : history.touched[k] <= history.touched[j]

\* what set(k, v) does to the keys: nothing is evicted unless k is absent
\* and the cache is full, and then the least recently touched key is
SetEvictsLeastRecent ==
  LET k == rresult'.key
  IN /\ cache'[1].entries[Len(cache'[1].entries)].key = k
     /\ cache'[1].entries[Len(cache'[1].entries)].value = rresult'.value
     /\ \A j \in KeysOf(cache'[1]) \ {k} : EntryOf(cache'[1], j) = EntryOf(Lru, j)
     /\ IF k \notin KeysOf(Lru) /\ CacheSize(Lru) = LruCapacity
          THEN KeysOf(cache'[1]) = (KeysOf(Lru) \ {LeastRecent(Lru, rin)}) \cup {k}
          ELSE KeysOf(cache'[1]) = KeysOf(Lru) \cup {k}

\* the other calls remove only what they are asked to, or what has expired
OthersEvictNothing ==
  /\ Called("get") \/ Called("has") =>
       /\ KeysOf(Lru) \ KeysOf(cache'[1]) \subseteq {rresult'.key}
       /\ rresult'.found => KeysOf(cache'[1]) = KeysOf(Lru)
  /\ Called("delete") => KeysOf(cache'[1]) = KeysOf(Lru) \ {rresult'.key}
  /\ Called("prune") =>
       \A j \in KeysOf(Lru) \ KeysOf(cache'[1]) : now > EntryOf(Lru, j).expiresAt

\* C26: the cache evicts only when a key that is not present is set while
\* size equals capacity, and then exactly one entry, the one least recently
\* touched by a get hit or a set; setting a present key replaces its value,
\* makes it most recent and evicts nothing
C26_LruOrder ==
  [][/\ Called("set") => SetEvictsLeastRecent
     /\ OthersEvictNothing
     /\ CacheSize(cache'[1]) <= LruCapacity]_vars

\* b was evicted although it was set after a, because a get hit touched a
C26_EvictedAfterGetHit ==
  /\ rresult.op = "set"
  /\ CacheSize(Lru) = LruCapacity
  /\ KeyNames[1] \in KeysOf(Lru)
  /\ KeyNames[2] \notin KeysOf(Lru)
  /\ rin.touched[KeyNames[2]] > 0
  /\ rin.touched[KeyNames[1]] > rin.touched[KeyNames[2]]
  /\ rin.deadline[KeyNames[1]] < rin.deadline[KeyNames[2]]
  /\ rin.calls = LruCapacity + 2

\* the deadline of the key of this call has passed
DeadlinePassed == rresult'.key \in KeysOf(Lru) /\ now > rin.deadline[rresult'.key]

\* the entry of the key is taken out of the cache, the others stay
RemovesOwnEntry ==
  /\ rresult'.key \notin KeysOf(cache'[1])
  /\ cache'[1].entries = WithoutKey(Lru.entries, rresult'.key)

\* every entry expires at the deadline fixed by the set that wrote it
DeadlinesFixed ==
  \A k \in KeysOf(Lru) : EntryOf(Lru, k).expiresAt = rin.deadline[k]

\* C27: an entry's deadline is fixed when it is set (set time + T) and is
\* not extended by get hits; once the clock has passed the deadline, get
\* returns absent, removes the entry and counts a miss, has returns false
\* and removes the entry; no call returns a value whose deadline has passed
C27_LazyExpiry ==
  [][/\ DeadlinesFixed /\ DeadlinesFixed'
     /\ Called("set") => EntryOf(cache'[1], rresult'.key).expiresAt = now + CacheTtl
     /\ Called("get") /\ DeadlinePassed =>
          /\ ~rresult'.found
          /\ RemovesOwnEntry
          /\ cache'[1].misses = Lru.misses + 1
          /\ cache'[1].hits = Lru.hits
     /\ Called("has") /\ DeadlinePassed => ~rresult'.found /\ RemovesOwnEntry
     /\ (Called("get") \/ Called("has")) /\ rresult'.found =>
          /\ rresult'.key \in KeysOf(Lru)
          /\ now <= rin.deadline[rresult'.key]
          /\ EntryOf(cache'[1], rresult'.key) = EntryOf(Lru, rresult'.key)
     /\ Called("get") /\ rresult'.found =>
          rresult'.value = EntryOf(Lru, rresult'.key).value]_vars

\* a get hit on the deadline, and then has found the entry expired
C27_ExpiredAfterGetHit ==
  /\ rresult.op = "has"
  /\ ~rresult.found
  /\ rin.deadline[rresult.key] > 0
  /\ now > rin.deadline[rresult.key]
  /\ rin.touched[rresult.key] = 2
  /\ Lru.hits = 1
  /\ rin.calls = 3
  /\ KeysOf(Lru) = {}

\* the entries whose deadline has not passed, in their order
Unexpired(c, history, at) ==
  SelectSeq(c.entries, LAMBDA en : at <= history.deadline[en.key])

\* C28: prune removes every entry whose deadline has passed and no other,
\* returns the number of entries it removed, and leaves the values, the
\* recency order and the hit and miss counters unchanged
C28_PruneExact ==
  [][Called("prune") =>
       /\ cache'[1].entries = Unexpired(Lru, rin, now)
       /\ rresult'.count = CacheSize(Lru) - CacheSize(cache'[1])
       /\ cache'[1].hits = Lru.hits
       /\ cache'[1].misses = Lru.misses]_vars

\* prune removed one entry and kept the one that expires now
C28_PrunedOneKeptOne ==
  /\ rresult.op = "prune"
  /\ rresult.count = 1
  /\ CacheSize(Lru) = 1
  /\ Lru.entries[1].expiresAt = now

\* the counters of the cache and the number of get calls
Counted(c, history) == c.hits + c.misses = history.gets

\* C29: hits + misses is the number of get calls since construction or the
\* last clear, and a get counts as a hit exactly when it returns a value;
\* set, has, delete and prune never change hits or misses; clear sets size,
\* hits and misses to 0
C29_Statistics ==
  [][/\ Counted(Lru, rin) /\ Counted(cache'[1], rin')
     /\ Called("get") =>
          /\ getStats(cache'[1]).hits = Lru.hits + (IF rresult'.found THEN 1 ELSE 0)
          /\ getStats(cache'[1]).misses = Lru.misses + (IF rresult'.found THEN 0 ELSE 1)
     /\ Called("set") \/ Called("has") \/ Called("delete") \/ Called("prune") =>
          /\ getStats(cache'[1]).hits = Lru.hits
          /\ getStats(cache'[1]).misses = Lru.misses
     /\ Called("clear") =>
          getStats(cache'[1]) = [size |-> 0, hits |-> 0, misses |-> 0]]_vars

\* a hit and a miss were counted, and a delete left the counters alone
C29_HitAndMissCounted ==
  /\ rresult.op = "delete"
  /\ rresult.found
  /\ rin.calls = LruCalls
  /\ rin.gets = 2
  /\ getStats(Lru) = [size |-> 0, hits |-> 1, misses |-> 1]
(***************************************************************************)
(* Properties of validateDestinationUrl (SpecValidate).                    *)
(***************************************************************************)
\* the destination as new URL(destination) parses it
Absolute == ParseUrl(rin.destination)

HttpSchemes == {<<"h","t","t","p",":">>, <<"h","t","t","p","s",":">>}

\* C30: an absolute destination whose scheme is javascript:, data:, file:,
\* vbscript:, about:, blob: or ftp:, or is not http or https, is rejected
\* for every allow-list and every setting of allowExternalRedirects; a
\* destination that does not parse as an absolute URL is accepted
C30_SchemesRejected ==
  rphase = "validated" =>
    /\ Absolute.ok /\ Absolute.protocol \in DangerousSchemes => rresult.verdict # "ok"
    /\ Absolute.ok /\ Absolute.protocol \notin HttpSchemes => rresult.verdict # "ok"
    /\ ~Absolute.ok => rresult.verdict = "ok"

\* an ftp destination on a host of the allow-list was rejected
C30_FtpOnAllowedHost ==
  /\ rphase = "validated"
  /\ Absolute.ok
  /\ Absolute.protocol = <<"f","t","p",":">>
  /\ isHostnameAllowed(Absolute.hostname, rin.allowedDomains)
  /\ rin.allowExternalRedirects
  /\ rresult.verdict = "blocked_scheme"

\* the hostname matches the entry of an allow-list, letter case apart
EntryAdmits(hostname, entry) ==
  \/ hostname = entry
  \/ /\ startsWith(entry, <<"*", ".">>)
     /\ endsWith(hostname, From(entry, 2)) \/ hostname = From(entry, 3)
  \/ ~startsWith(entry, <<"*">>) /\ hostname = <<"w","w","w",".">> \o entry

\* the host policy for a hostname, an allow-list and the origin's hostname
HostAccepted(hostname, allowedDomains, allowExternalRedirects, originHost) ==
  IF allowedDomains # <<>>
    THEN \E i \in DOMAIN allowedDomains :
           EntryAdmits(toLowerCase(hostname), toLowerCase(allowedDomains[i]))
    ELSE allowExternalRedirects \/ hostname = originHost

\* C31: an absolute http(s) destination is accepted, with a non-empty
\* allow-list, iff its hostname equals an entry, matches a *.domain entry or
\* is www. plus a bare entry, letter case and allowExternalRedirects apart;
\* with no allow-list, iff allowExternalRedirects is set or its hostname is
\* the hostname of the request's origin
C31_HostPolicy ==
  rphase = "validated" /\ Absolute.ok /\ Absolute.protocol \in HttpSchemes =>
    (rresult.verdict = "ok") =
      HostAccepted(Absolute.hostname, rin.allowedDomains,
                   rin.allowExternalRedirects, HostA)

\* a subdomain was accepted for a wildcard entry although external
\* redirects are off
C31_SubdomainOfWildcard ==
  /\ rphase = "validated"
  /\ rresult.verdict = "ok"
  /\ Absolute.hostname = <<"s", ".">> \o HostE
  /\ rin.allowedDomains = <<<<"*", ".">> \o HostE>>
  /\ ~rin.allowExternalRedirects

(***************************************************************************)
(* Properties of validateRedirectPattern (SpecPatternText).                *)
(***************************************************************************)
NonEmpty(p) == Len(p) >= 1
ShortEnough(p) == Len(p) <= 200
AllAllowed(p) ==
  \A i \in DOMAIN p :
    \/ IsLetter(p[i])
    \/ p[i] \in DigitChars
    \/ p[i] \in {":", "/", "*", "_", ".", "-", "?", "&", "=", "#", "+", "%", "@", "!", "~"}

\* no "(...)" that is followed by "+" or "*"
NoQuantifiedGroup(p) ==
  ~\E i \in DOMAIN p : \E j \in DOMAIN p :
     /\ i < j
     /\ p[i] = "("
     /\ p[j] = ")"
     /\ j + 1 <= Len(p)
     /\ p[j + 1] \in {"+", "*"}

NoStarRun(p) == ~\E i \in DOMAIN p : i + 1 <= Len(p) /\ p[i] = "*" /\ p[i + 1] = "*"

\* C32: a text is accepted exactly when it is non-empty, at most 200
\* characters long, made of allowed characters, without a parenthesized
\* group followed by + or * and without two consecutive *, whatever the
\* order of the checks; a rejection carries the reason of a check that failed
C32_PatternAccepted ==
  rphase = "validated" =>
    /\ (rresult.verdict = "ok") =
         (/\ NonEmpty(rin.pattern)
          /\ ShortEnough(rin.pattern)
          /\ AllAllowed(rin.pattern)
          /\ NoQuantifiedGroup(rin.pattern)
          /\ NoStarRun(rin.pattern))
    /\ rresult.verdict = "too_long" => ~ShortEnough(rin.pattern)
    /\ rresult.verdict = "invalid_characters" =>
         ~NonEmpty(rin.pattern) \/ ~AllAllowed(rin.pattern)
    /\ rresult.verdict = "nested_quantifiers" => ~NoQuantifiedGroup(rin.pattern)
    /\ rresult.verdict = "consecutive_wildcards" => ~NoStarRun(rin.pattern)

\* /p/**/f was rejected for its consecutive wildcards
C32_StarRunRejected ==
  /\ rphase = "validated"
  /\ rin.pattern = <<"/", "p", "/", "*", "*", "/", "f">>
  /\ rresult.verdict = "consecutive_wildcards"

(***************************************************************************)
(* Properties of deleteRedirect on a source the table does not hold        *)
(* (SpecSeq).                                                              *)
(***************************************************************************)
\* the call t is a deleteRedirect that goes on after its getRedirectMap
DeleteGoesOn(t) ==
  /\ tasks[t].op = "delete"
  /\ tasks[t].pc = "resume"
  /\ tasks'[t].pc # "resume"

\* getRedirectMap gave the call no table, or one without the source
SourceAbsent(t) ==
  \/ tasks[t].map = 0
  \/ ~HasKey(heap[tasks[t].map].map, tasks[t].source)

NoTable == [cached |-> FALSE, map |-> <<>>]

\* the rule table a call on the engine is given by the bounded cache
VisibleTable(c, h, e) ==
  IF EntryIndex(c[e], REDIRECT_MAP_CACHE_KEY) = 0 THEN NoTable
  ELSE [cached |-> TRUE,
        map |-> h[c[e].entries[EntryIndex(c[e], REDIRECT_MAP_CACHE_KEY)].value].map]

\* a getRedirectMap of the engine decodes the payload it fetched
DecodesOn(e) ==
  \E t \in Tasks :
    /\ tasks[t].engine = e
    /\ tasks[t].pc = "decode"
    /\ tasks'[t].pc = "resume"
    /\ Decode(tasks[t].data).ok
    /\ VisibleTable(cache', heap', e).map = Decode(tasks[t].data).map

\* C34: the rule table visible through an engine's cache changes only by a
\* cache write that follows a successful decode of the store payload, or by
\* invalidation; a mutation whose put is pending is not observable
C34_CacheChangesByDecodeOnly ==
  [][\A e \in Engines :
       VisibleTable(cache', heap', e) # VisibleTable(cache, heap, e) =>
         \/ DecodesOn(e)
         \/ VisibleTable(cache', heap', e) = NoTable]_vars

\* the same, but for the steps of a mutation between its getRedirectMap
\* and its put
MutatesTable ==
  \E t \in Tasks :
    tasks[t].pc = "resume" /\ tasks[t].op \in {"save", "bulk", "delete"}

CacheChangesByDecodeOrMutation ==
  [][\A e \in Engines :
       VisibleTable(cache', heap', e) # VisibleTable(cache, heap, e) =>
         \/ DecodesOn(e)
         \/ VisibleTable(cache', heap', e) = NoTable
         \/ MutatesTable]_vars

(***************************************************************************)
(* Properties of the caches after a delete (SpecDelete).                   *)
(***************************************************************************)
\* deleteRedirect(source) has returned true on the engine
DeletedOn(e, source) ==
  \E d \in Tasks :
    /\ tasks[d].op = "delete"
    /\ tasks[d].pc = "done"
    /\ tasks[d].engine = e
    /\ tasks[d].source = source
    /\ tasks[d].result.kind = "true"

StoreHolds(source) == Decode(kv).ok /\ HasKey(Decode(kv).map, source)

\* the call t starts as a matchRedirect on the engine e and its
\* getRedirectMap hits the cache
MatchStartsOnCached(t, e) ==
  /\ tasks[t].pc = "idle"
  /\ tasks'[t].op = "match"
  /\ tasks'[t].engine = e
  /\ tasks'[t].pc = "resume"

\* the pattern cache of the engine holds sources of the store only
PatternsOfStore(e) == \A pattern \in patternCache[e] : StoreHolds(pattern)

\* C35: once deleteRedirect(s) has returned true on an engine, no
\* matchRedirect that starts afterwards on the engine resolves against a
\* table with the rule s, and the pattern cache holds no pattern of a rule
\* absent from the store, also when a resolution that fetched before the
\* delete resumes after it
C35_InvalidationIsFinal ==
  [][\A e \in Engines : \A s \in DeleteSources :
       DeletedOn(e, s) /\ ~StoreHolds(s) =>
         /\ \A t \in Tasks :
              MatchStartsOnCached(t, e) => ~HasKey(heap'[tasks'[t].map].map, s)
         /\ PatternsOfStore(e)']_vars
(***************************************************************************)
(* Properties of matching with warm caches (SpecWarm).                     *)
(***************************************************************************)
\* the pattern cache holds, for each pattern, what compiling it gives
PatternCacheSound ==
  \A p \in DOMAIN rin.patterns : rin.patterns[p] = CompileText(p)

\* C36: over a store that does not change, a matchRedirect on a service
\* with warm caches returns the matched flag, rule and parameters of the
\* same call on a service with empty caches and of the implementation
\* without caches
C36_WarmthDoesNotMatter ==
  /\ rphase = "matched" => rresult.warm = rresult.cold /\ rresult.warm = rresult.free
  /\ PatternCacheSound
  /\ rin.table.cached => rin.table.map = Decode(rin.store).map

\* a call on a service with both caches warm matched by a cached pattern
C36_MatchedWarm ==
  /\ rphase = "matched"
  /\ rresult.wasWarm
  /\ rresult.warm.matched
  /\ rresult.warm.params # <<>>
  /\ rresult.warm.rule[1].source \in DOMAIN rin.patterns
  /\ Cardinality(DOMAIN rin.patterns) = MaxResolveRules


\* the bare "*" tokens of a pattern, and the capture groups of the text handed
\* to new RegExp
BareStarTokens(tokens) ==
  {i \in DOMAIN tokens : tokens[i].kind = "wild" /\ startsWith(tokens[i].name, SplatPrefix)}
CaptureGroups(source) == Cardinality({i \in DOMAIN source : source[i] = "("})

\* C37: each token of a pattern is compiled once: as many capture groups and
\* as many recorded parameter names as the pattern has ":name", ":name*" and
\* "*" tokens, and a match of a pattern without a bare "*" ("/b/:t*") binds
\* neither a _splat<i> nor splat
C37_OneGroupPerToken ==
  rphase # "input" =>
    /\ CaptureGroups(CompileText(rin.pattern).source) = Len(TokenNames(PatternTokens))
    /\ Len(CompileText(rin.pattern).paramNames) = Len(TokenNames(PatternTokens))
    /\ rresult.ok /\ BareStarTokens(PatternTokens) = {} =>
         \A key \in Keys(rresult.params) :
           key # SplatAlias /\ ~startsWith(key, SplatPrefix)


\* the keys that a set or a get hit has touched since construction
TouchedKeys == {k \in LruKeys : rin.touched[k] > 0}

\* C38: after any sequence of set, get, has, delete, prune and clear on a
\* cache of capacity N the cache stores at most N entries, and
\* getStats().size is the number of stored entries
C38_SizeBounded ==
  /\ Cardinality(KeysOf(Lru)) <= LruCapacity
  /\ getStats(Lru).size = Cardinality(KeysOf(Lru))

\* more keys than the capacity were set, and the cache is full after a set
C38_FullAfterEviction ==
  /\ rresult.op = "set"
  /\ Cardinality(TouchedKeys) > LruCapacity
  /\ getStats(Lru).size = LruCapacity
  /\ Cardinality(KeysOf(Lru)) = LruCapacity


\* the pattern has no ":name", ":name*" or "*" token
TokenFree(pattern) ==
  \A i \in DOMAIN Tokens(pattern, 1, 0) : Tokens(pattern, 1, 0)[i].kind = "lit"

\* the strings the pattern iteration matches a source against, by its class
Candidates(pattern, url) ==
  IF startsWith(pattern, HttpPrefix) THEN {FullUrlKey(url)}
  ELSE IF startsWith(pattern, <<"/">>) THEN {PathKey(url)}
  ELSE {HostAndPathKey(url), PathKey(url)}

\* C39: a source without a token that validateRedirectPattern accepts matches
\* only a candidate equal to it character for character: ".", "?" and "+"
\* stand for themselves
C39_LiteralSourceExact ==
  /\ rphase = "matched"
  /\ TokenFree(rin.redirect.source)
  /\ PatternValid(rin.redirect.source)
  /\ rresult.matched
  => rin.redirect.source \in Candidates(rin.redirect.source, rin.url)


\* the colon at position i of the destination ends the scheme, stands before
\* the port, or lies in the query string
SchemeColon(d, i) == SchemeLen(d) >= 1 /\ i = SchemeLen(d) + 1
PortColon(d, i) ==
  /\ SchemeLen(d) >= 1
  /\ i >= SchemeLen(d) + 4
  /\ \A j \in (SchemeLen(d) + 4)..i : d[j] \notin {"/", "?", "#"}
QueryColon(d, i) == \E j \in 1..(i - 1) : d[j] = "?"

\* the destination has no ":name", ":name*" or "*" placeholder
PlaceholderFree(d) ==
  /\ ~includes(d, <<"*">>)
  /\ \A i \in DOMAIN d :
       d[i] = ":" /\ NameRun(d, i + 1) >= 1 =>
         SchemeColon(d, i) \/ PortColon(d, i) \/ QueryColon(d, i)

\* C40: the cleanup removes nothing from a destination without a placeholder:
\* for a match without captured parameters and with the preservation of the
\* query and of the hash off, the Location is the destination resolved
\* against the request's origin, with its port and with the "//" and ":" of
\* its query string
C40_CleanupKeepsDestination ==
  /\ rphase = "processed"
  /\ rresult.matched /\ rresult.params = <<>>
  /\ PlaceholderFree(rin.redirect.destination)
  /\ ~rin.redirect.preserveQueryParams /\ ~rin.redirect.preserveHash
  /\ rresponse.status \in RedirectStatuses
  => rresponse.location =
       UrlText(ParseDestination(rin.redirect.destination, Origin(rin.url)))

====
